---- MODULE Spec2Model ----
(***************************************************************************)
(* Model of the agent of rand/asc: the main loop of AgentAdapter.run, the  *)
(* task lifecycle of HephaestusLoop (poll, lease, prompt, apply, finalize) *)
(* and the shared status record of HeartbeatManager.                       *)
(*                                                                         *)
(* Spec    the orchestrator thread: one step per external call of          *)
(*         iterate() / _execute_task, with the signal handler interleaved  *)
(*         at every step.                                                  *)
(* SpecHB  update_status and the heartbeat thread at statement             *)
(*         granularity (the two threads share status/current_task/error).  *)
(* SpecACE the lesson store of ACEPlaybook: a playbook constructed over an *)
(*         arbitrary playbook file, and its operations one call at a time. *)
(***************************************************************************)
EXTENDS Integers, Sequences, FiniteSets, TLC

VARIABLES
    running,        \* AgentAdapter.running
    mpc,            \* position of the main thread
    iter,           \* number of iterate() calls started
    bd,             \* task source: status of every task
    task,           \* iterate(): the task returned by _poll_for_task
    current_task,   \* HephaestusLoop.current_task
    files_to_lease, \* _execute_task: candidates still to be requested
    leases,         \* _execute_task: local list returned by _request_file_leases
    active_leases,  \* HephaestusLoop.active_leases
    ri,             \* _release_all_leases: index of the next lease to release
    result,         \* what llm_client.complete returned (kind of content)
    planLen,        \* number of entries of the parsed "actions" list
    ai,             \* _execute_action_plan: index of the next action
    failed,         \* the exception that left the loop over the actions
    fsRest,         \* fs, had the loop gone on with the entries it never reached
    exc,            \* exception caught at the task boundary
    fs,             \* file system below beads_db_path
    hb_status,      \* HeartbeatManager.status
    hb_task,        \* HeartbeatManager.current_task
    hb_error,       \* HeartbeatManager.error
    hb_running,     \* HeartbeatManager.running
    backoff_time,   \* HeartbeatManager.backoff_time
    payload,        \* the last heartbeat payload posted
    ev,             \* external events of the current iterate() call
    touched,        \* paths written or deleted in the current iterate() call
    skipped,        \* paths of actions refused by the lease check
    acquired,       \* lease ids appended to active_leases in this call
    relReq,         \* lease ids a release request was posted for in this call
    observed,       \* the while condition of run() has been read as false
    sig_at,         \* where the main thread was when the signal arrived
    upc,            \* update_status: position of the calling thread
    u_args,         \* update_status: its arguments (status, current_task, error)
    u_prev,         \* update_status: the arguments of the call before
    old_status,     \* update_status: local old_status
    written,        \* the triples update_status calls have written so far
    calls,          \* number of update_status calls begun
    tpc,            \* position of the heartbeat thread
    p_status,       \* _send_heartbeat of the thread: payload["status"]
    p_task,         \* _send_heartbeat of the thread: payload["current_task"]
    p_error,        \* _send_heartbeat of the thread: payload["error"]
    beats,          \* number of heartbeats the thread has posted
    u_backoff,      \* _handle_connection_failure in update_status: the new
                    \* back-off, computed and not yet stored
    t_backoff,      \* the same in the heartbeat thread
    lessons,        \* ACEPlaybook.lessons
    disk,           \* content of playbook.json
    last,           \* the last operation called on the playbook
    pre,            \* the list the last curation pass received
    query,          \* arguments of the last get_relevant_lessons call
    out,            \* what the last get_relevant_lessons call returned
    loaded,         \* lessons of a second ACEPlaybook constructed afterwards
    saved,          \* the file is what _save_playbook wrote from this memory
    nops,           \* number of calls that changed the memory or the file
    subject,        \* the task whose phase, title and description are passed
    retry,          \* _retry_with_backoff: max_retries, attempt, the outcomes
                    \* of the calls of func, the waits, and how it ended
    plan,           \* _execute_action_plan: the parsed "actions" list
    outObj,         \* what each returned entry is: a dictionary of its own
                    \* ("dict") or the stored Lesson object ("lesson")
    ag,             \* two agents on one task source: each one's position,
                    \* leases and what it did in its current execution
    broker,         \* the lease broker: the holder of each path's lease
    hist            \* history of one agent's polls and executions

vars == <<running, mpc, iter, bd, task, current_task, files_to_lease, leases,
          active_leases, ri, result, planLen, ai, failed, fsRest, exc, fs,
          hb_status, hb_task, hb_error, hb_running, backoff_time, payload, ev,
          touched, skipped, acquired, relReq, observed, sig_at, upc,
          u_args, u_prev, old_status, written, calls, tpc, p_status, p_task,
          p_error, beats, u_backoff, t_backoff, lessons, disk, last, pre,
          query, out, loaded, saved, nops, subject, retry, plan, outObj,
          ag, broker, hist>>

None == "None"
Absent == "absent"

\* ------------------------------------------------------------------ bounds
MaxIter == 2
MaxPlan == 2
MaxCalls == 2
MaxBeats == 2

\* --------------------------------------------------------------- constants
max_backoff == 300

Paths == {"a.py", "b.py", "x.py"}

\* The ordered answer of `bd list`: id, phase, and the description reduced to
\* whether it is a string ("description": null is not) and the paths its
\* text mentions.
TaskList ==
    << [id |-> "t0", phase |-> "test",
        description |-> [isStr |-> TRUE, paths |-> {}]],
       [id |-> "t1", phase |-> "Impl",
        description |-> [isStr |-> TRUE, paths |-> {"a.py", "b.py"}]],
       [id |-> "t2", phase |-> "impl",
        description |-> [isStr |-> FALSE, paths |-> {}]] >>

TaskIds == {TaskList[i].id : i \in 1..Len(TaskList)}

phases == <<"impl">>

\* str.lower on the words of the model that have upper-case letters.
Lower(s) ==
    CASE s = "Impl" -> "impl"
      [] s = "Task" -> "task"
      [] s = "User" -> "user"
      [] s = "Fix" -> "fix"
      [] OTHER -> s

Min(a, b) == IF a < b THEN a ELSE b

Range(s) == {s[i] : i \in 1..Len(s)}

\* All orderings of a finite set (list(set(files)) fixes no order).
Perms(S) == {s \in [1..Cardinality(S) -> S] : Range(s) = S}

\* ------------------------------------------------------- HeartbeatManager
\* _handle_connection_failure: the back-off doubles up to max_backoff.
handle_connection_failure(b) == Min(b * 2, max_backoff)

\* _send_heartbeat called by the thread that owns the record: the payload
\* carries status (or the override), current_task and error when truthy;
\* a 200 answer resets the back-off, anything else doubles it.
send_heartbeat(st, ct, er, ok) ==
    /\ payload' = [status |-> st, current_task |-> ct, error |-> er]
    /\ backoff_time' = IF ok THEN 1 ELSE handle_connection_failure(backoff_time)

\* update_status as one step of the main thread.
update_status(st, ct, er) ==
    /\ hb_status' = st
    /\ hb_task' = ct
    /\ hb_error' = er
    /\ IF hb_status # st
         THEN \E ok \in BOOLEAN : send_heartbeat(st, ct, er, ok)
         ELSE UNCHANGED <<payload, backoff_time>>

hbVars == <<hb_status, hb_task, hb_error, backoff_time, payload>>

\* --------------------------------------------------------- HephaestusLoop
TaskOf(id) == CHOOSE i \in 1..Len(TaskList) : TaskList[i].id = id

\* Mutant of Matches: the phase is compared as it is written.
Matches_CaseSensitive(i, st) ==
    /\ st[TaskList[i].id] = "open"
    /\ TaskList[i].phase \in Range(phases)

\* _poll_for_task: `bd list --status open` answers the open tasks in order;
\* the first one whose lower-cased phase is a lower-cased configured phase
\* is returned, None when there is none.
Matches(i, st) ==
    /\ st[TaskList[i].id] = "open"
    /\ Lower(TaskList[i].phase) \in {Lower(phases[k]) : k \in 1..Len(phases)}

poll_for_task(st) ==
    IF \E i \in 1..Len(TaskList) : Matches(i, st)
      THEN TaskList[CHOOSE i \in 1..Len(TaskList) :
                      /\ Matches(i, st)
                      /\ \A j \in 1..(i - 1) : ~Matches(j, st)].id
      ELSE None

\* Mutant of update_task_status: the status is set on every task.
update_task_status_EveryTask(id, s, ok) ==
    IF ok THEN [i \in TaskIds |-> s] ELSE bd

\* _update_task_status: `bd update <id> --status <s>`; a non-zero exit, a
\* timeout or an exception is logged and the source keeps its status.
update_task_status(id, s, ok) == IF ok THEN [bd EXCEPT ![id] = s] ELSE bd

LeaseId(n, f) == <<n, f>>

leased_files(ls) == {ls[i].file_path : i \in 1..Len(ls)}

\* The entries an "actions" list can hold: objects with a type and a file
\* (None: no "file" key), or an entry that is no object at all.
NonDict == [type |-> "nondict", file |-> None]

DictActions ==
    [type : {"read", "write", "delete", "chmod"}, file : Paths \cup {None}]

PlanActions == DictActions \cup {NonDict}

\* Mutant of Allowed: the lease check is left out.
Allowed_AnyPath(a, ls) == a.file # None

\* Safety check of _execute_action_plan: the action is carried out only when
\* it names a file and that exact string is the file_path of a lease.
Allowed(a, ls) == a.file # None /\ a.file \in leased_files(ls)

\* Whether handling entry a raises: action.get on a non-object, or the I/O of
\* a permitted write or of a permitted delete of an existing file failing.
Raises(a, f, ls, io) ==
    \/ a.type = "nondict"
    \/ /\ Allowed(a, ls)
       /\ io
       /\ \/ a.type = "write"
          \/ a.type = "delete" /\ f[a.file] # Absent

\* The text a write entry puts into its file; "new" stands for it where the
\* entries are drawn without their "content".
Content(a) == IF "content" \in DOMAIN a THEN a.content ELSE "new"

\* The file system after entry a was handled without an exception.
Effect(a, f, ls) ==
    IF a.type = "nondict" \/ ~Allowed(a, ls) THEN f
    ELSE IF a.type = "write" THEN [f EXCEPT ![a.file] = Content(a)]
    ELSE IF a.type = "delete" THEN [f EXCEPT ![a.file] = Absent]
    ELSE f

RECURSIVE Fold(_, _, _)
Fold(f, as, ls) ==
    IF as = <<>> THEN f ELSE Fold(Effect(Head(as), f, ls), Tail(as), ls)

SeqsOfLen(S, n) == [1..n -> S]

\* --------------------------------------------------------------- actions
taskVars == <<task, current_task, files_to_lease, leases, active_leases, ri,
              result, planLen, ai, failed, fsRest, exc>>
histVars == <<touched, skipped, acquired, relReq>>
thVars == <<upc, u_args, u_prev, old_status, written, calls, tpc, p_status,
            p_task, p_error, beats, u_backoff, t_backoff>>

aceVars ==
    <<lessons, disk, last, pre, query, out, loaded, saved, nops, subject>>

\* Positions of the main thread inside _execute_task.
TaskPcs ==
    {"t_start", "t_working", "t_identify", "t_lease", "t_retrieve", "t_llm",
     "t_parse", "t_apply", "t_complete", "t_reflect", "t_except",
     "t_except_reflect", "t_release"}

\* No call of _retry_with_backoff is under way.
NoRetry ==
    [max_retries |-> 0, attempt |-> 0, pc |-> "none", calls |-> <<>>,
     waits |-> <<>>, out |-> <<>>]

\* The variables of the specifications of single functions, and their values
\* while no such function is being called.
restVars == <<retry, plan, outObj, ag, broker, hist>>

RestIdle ==
    /\ retry = NoRetry
    /\ plan = <<>>
    /\ outObj = <<>>
    /\ ag = <<>>
    /\ broker = <<>>
    /\ hist = <<>>

\* The state after AgentAdapter.initialize(), but for the position of the
\* main thread and the heartbeat thread's flag.
Constructed ==
    /\ running = TRUE
    /\ iter = 0
    /\ task = None
    /\ current_task = None
    /\ files_to_lease = <<>>
    /\ leases = <<>>
    /\ active_leases = <<>>
    /\ ri = 1
    /\ result = None
    /\ planLen = 0
    /\ ai = 1
    /\ failed = None
    /\ fs = [p \in Paths |-> IF p = "b.py" THEN Absent ELSE "old"]
    /\ fsRest = [p \in Paths |-> IF p = "b.py" THEN Absent ELSE "old"]
    /\ exc = None
    /\ hb_status = "idle"
    /\ hb_task = None
    /\ hb_error = None
    /\ backoff_time = 1
    /\ payload = [status |-> None, current_task |-> None, error |-> None]
    /\ ev = <<>>
    /\ touched = {}
    /\ skipped = {}
    /\ acquired = {}
    /\ relReq = {}
    /\ observed = FALSE
    /\ sig_at = None
    /\ upc = "none"
    /\ u_args = <<"idle", None, None>>
    /\ u_prev = <<>>
    /\ u_backoff = 1
    /\ t_backoff = 1
    /\ old_status = "idle"
    /\ written = {<<"idle", None, None>>}
    /\ calls = 0
    /\ tpc = "loop"
    /\ p_status = None
    /\ p_task = None
    /\ p_error = None
    /\ beats = 0

\* ACEPlaybook.__init__ without a playbook file: no lessons.
FreshStore ==
    /\ lessons = <<>>
    /\ disk = [kind |-> "absent", data |-> <<>>]
    /\ last = "init"
    /\ pre = <<>>
    /\ query = <<>>
    /\ out = <<>>
    /\ loaded = [made |-> FALSE, lessons |-> <<>>]
    /\ saved = FALSE
    /\ nops = 0
    /\ subject = None

\* What the task source may hold when the agent starts: t0, a task of a
\* phase the agent does not serve, is open; each of the others is open or
\* was closed before.
InitialSources ==
    {b \in [TaskIds -> {"open", "complete"}] : b["t0"] = "open"}

Init ==
    /\ Constructed
    /\ FreshStore
    /\ bd \in InitialSources
    /\ mpc = "run"
    /\ hb_running = FALSE
    /\ RestIdle

\* Mutant of signal_handler: the handler leaves the loop at once.
signal_handler_ExitsNow ==
    /\ running
    /\ mpc # "exited"
    /\ running' = FALSE
    /\ mpc' = "shutdown"
    /\ sig_at' = IF mpc \in TaskPcs THEN "in_task" ELSE "between"
    /\ UNCHANGED <<iter, bd, taskVars, fs, hbVars, hb_running, ev, histVars,
                   observed, thVars, aceVars, restVars>>

\* signal_handler (SIGTERM, SIGINT): runs in the main thread between two of
\* its steps and only clears the flag.
signal_handler ==
    /\ running
    /\ mpc # "exited"
    /\ running' = FALSE
    /\ sig_at' = IF mpc \in TaskPcs THEN "in_task" ELSE "between"
    /\ UNCHANGED <<mpc, iter, bd, taskVars, fs, hbVars, hb_running, ev,
                   histVars, observed, thVars, aceVars, restVars>>

\* run(): heartbeat_manager.start()
run_start ==
    /\ mpc = "run"
    /\ hb_running' = TRUE
    /\ mpc' = "run_loop"
    /\ UNCHANGED <<running, iter, bd, taskVars, fs, hbVars, ev, histVars,
                   observed, sig_at, thVars, aceVars, restVars>>

\* run(): `while self.running` read as true; iterate() is called.
run_iterate ==
    /\ mpc = "run_loop"
    /\ running
    /\ iter < MaxIter
    /\ iter' = iter + 1
    /\ mpc' = "poll"
    /\ UNCHANGED <<running, bd, taskVars, fs, hbVars, hb_running, ev,
                   histVars, observed, sig_at, thVars, aceVars, restVars>>

\* Mutant of run_exit: the loop also ends after an iterate() that hit an
\* exception.
run_exit_OnError ==
    /\ mpc = "run_loop"
    /\ ~running \/ exc # None
    /\ observed' = TRUE
    /\ mpc' = "shutdown"
    /\ UNCHANGED <<running, iter, bd, taskVars, fs, hbVars, hb_running, ev,
                   histVars, sig_at, thVars, aceVars, restVars>>

\* run(): `while self.running` read as false; the finally clause follows.
run_exit ==
    /\ mpc = "run_loop"
    /\ ~running
    /\ observed' = TRUE
    /\ mpc' = "shutdown"
    /\ UNCHANGED <<running, iter, bd, taskVars, fs, hbVars, hb_running, ev,
                   histVars, sig_at, thVars, aceVars, restVars>>

\* iterate(): _poll_for_task; without a task the status is set to idle and
\* iterate() returns.
poll ==
    /\ mpc = "poll"
    /\ \E ok \in BOOLEAN :
         LET t == IF ok THEN poll_for_task(bd) ELSE None IN
           /\ task' = t
           /\ IF t = None
                THEN /\ update_status("idle", None, None)
                     /\ ev' = <<"poll", "idle">>
                     /\ mpc' = "sleep"
                ELSE /\ UNCHANGED hbVars
                     /\ ev' = <<"poll">>
                     /\ mpc' = "t_start"
    /\ files_to_lease' = <<>>
    /\ leases' = <<>>
    /\ ri' = 1
    /\ result' = None
    /\ planLen' = 0
    /\ ai' = 1
    /\ failed' = None
    /\ fsRest' = fs
    /\ exc' = None
    /\ touched' = {}
    /\ skipped' = {}
    /\ acquired' = {}
    /\ relReq' = {}
    /\ UNCHANGED <<running, iter, bd, current_task, active_leases, fs,
                   hb_running, observed, sig_at, thVars, aceVars, restVars>>

\* Mutant of t_start: a failed in_progress update is raised to the task
\* boundary.
t_start_AbortsOnFailure ==
    /\ mpc = "t_start"
    /\ current_task' = task
    /\ \E ok \in BOOLEAN :
         /\ bd' = update_task_status(task, "in_progress", ok)
         /\ exc' = IF ok THEN None ELSE "CalledProcessError"
         /\ mpc' = IF ok THEN "t_working" ELSE "t_except"
    /\ ev' = Append(ev, "in_progress")
    /\ UNCHANGED <<running, iter, task, files_to_lease, leases, active_leases,
                   ri, result, planLen, ai, failed, fsRest, fs, hbVars,
                   hb_running, histVars, observed, sig_at, thVars, aceVars,
                   restVars>>

\* _execute_task: current_task is set and the in_progress update is tried.
t_start ==
    /\ mpc = "t_start"
    /\ current_task' = task
    /\ \E ok \in BOOLEAN : bd' = update_task_status(task, "in_progress", ok)
    /\ ev' = Append(ev, "in_progress")
    /\ mpc' = "t_working"
    /\ UNCHANGED <<running, iter, task, files_to_lease, leases, active_leases,
                   ri, result, planLen, ai, failed, fsRest, exc, fs, hbVars,
                   hb_running, histVars, observed, sig_at, thVars, aceVars,
                   restVars>>

\* Mutant of t_working: a heartbeat that fails is raised to the except
\* clause of _execute_task.
t_working_RaisesOnFailure ==
    /\ mpc = "t_working"
    /\ hb_status' = "working"
    /\ hb_task' = task
    /\ hb_error' = None
    /\ \E ok \in BOOLEAN :
         /\ send_heartbeat("working", task, None, ok)
         /\ exc' = IF ok THEN exc ELSE "ConnectionError"
         /\ mpc' = IF ok THEN "t_identify" ELSE "t_except"
    /\ ev' = Append(ev, "working")
    /\ UNCHANGED <<running, iter, bd, task, current_task, files_to_lease,
                   leases, active_leases, ri, result, planLen, ai, failed,
                   fsRest, fs, hb_running, histVars, observed, sig_at, thVars,
                   aceVars, restVars>>

\* _execute_task: heartbeat_manager.update_status("working", task.id)
t_working ==
    /\ mpc = "t_working"
    /\ update_status("working", task, None)
    /\ ev' = Append(ev, "working")
    /\ mpc' = "t_identify"
    /\ UNCHANGED <<running, iter, bd, taskVars, fs, hb_running, histVars,
                   observed, sig_at, thVars, aceVars, restVars>>

\* _identify_files_for_task: the paths the description mentions, in the
\* order list(set(...)) happens to give; re.findall raises on a description
\* that is no string.
t_identify ==
    /\ mpc = "t_identify"
    /\ LET d == TaskList[TaskOf(task)].description IN
         IF ~d.isStr
           THEN /\ exc' = "TypeError"
                /\ mpc' = "t_except"
                /\ UNCHANGED files_to_lease
           ELSE /\ \E order \in Perms(d.paths) : files_to_lease' = order
                /\ mpc' = IF d.paths = {} THEN "t_retrieve" ELSE "t_lease"
                /\ UNCHANGED exc
    /\ UNCHANGED <<running, iter, bd, task, current_task, leases,
                   active_leases, ri, result, planLen, ai, failed, fsRest, fs,
                   hbVars, hb_running, ev, histVars, observed, sig_at,
                   thVars, aceVars, restVars>>

\* Mutant of t_lease: an exception of the reservation request is raised to
\* the task boundary.
t_lease_AbortsOnError ==
    /\ mpc = "t_lease"
    /\ LET f == Head(files_to_lease)
           l == [lease_id |-> LeaseId(iter, f), file_path |-> f] IN
         \E r \in {"granted", "denied", "error"} :
           /\ IF r = "granted"
                THEN /\ leases' = Append(leases, l)
                     /\ active_leases' = Append(active_leases, l)
                     /\ acquired' = acquired \cup {l.lease_id}
                ELSE UNCHANGED <<leases, active_leases, acquired>>
           /\ exc' = IF r = "error" THEN "ConnectionError" ELSE None
           /\ mpc' = IF r = "error" THEN "t_except"
                     ELSE IF Tail(files_to_lease) = <<>> THEN "t_retrieve"
                     ELSE "t_lease"
    /\ files_to_lease' = Tail(files_to_lease)
    /\ ev' = Append(ev, "lease_req")
    /\ UNCHANGED <<running, iter, bd, task, current_task, ri, result, planLen,
                   ai, failed, fsRest, fs, hbVars, hb_running, touched,
                   skipped, relReq, observed, sig_at, thVars, aceVars,
                   restVars>>

\* _request_file_leases, one candidate: a 200 answer is recorded in the
\* local list and in active_leases; another answer or an exception is logged.
t_lease ==
    /\ mpc = "t_lease"
    /\ LET f == Head(files_to_lease)
           l == [lease_id |-> LeaseId(iter, f), file_path |-> f] IN
         \E r \in {"granted", "denied", "error"} :
           IF r = "granted"
             THEN /\ leases' = Append(leases, l)
                  /\ active_leases' = Append(active_leases, l)
                  /\ acquired' = acquired \cup {l.lease_id}
             ELSE UNCHANGED <<leases, active_leases, acquired>>
    /\ files_to_lease' = Tail(files_to_lease)
    /\ ev' = Append(ev, "lease_req")
    /\ mpc' = IF Tail(files_to_lease) = <<>> THEN "t_retrieve" ELSE "t_lease"
    /\ UNCHANGED <<running, iter, bd, task, current_task, ri, result, planLen,
                   ai, failed, fsRest, exc, fs, hbVars, hb_running, touched,
                   skipped, relReq, observed, sig_at, thVars, aceVars,
                   restVars>>

\* _build_context, playbook.get_relevant_lessons, _generate_prompt
t_retrieve ==
    /\ mpc = "t_retrieve"
    /\ ev' = Append(ev, "retrieve")
    /\ mpc' = "t_llm"
    /\ UNCHANGED <<running, iter, bd, taskVars, fs, hbVars, hb_running,
                   histVars, observed, sig_at, thVars, aceVars, restVars>>

\* llm_client.complete: raises, or returns text without a JSON object, with
\* an unparsable span, or with a plan of planLen actions.
t_llm ==
    /\ mpc = "t_llm"
    /\ ev' = Append(ev, "llm")
    /\ \/ /\ exc' = "LLMError"
          /\ mpc' = "t_except"
          /\ UNCHANGED <<result, planLen>>
       \/ /\ \E k \in {"nojson", "badjson"} : result' = k
          /\ planLen' = 0
          /\ mpc' = "t_parse"
          /\ UNCHANGED exc
       \/ /\ result' = "plan"
          /\ \E n \in 0..MaxPlan : planLen' = n
          /\ mpc' = "t_parse"
          /\ UNCHANGED exc
    /\ UNCHANGED <<running, iter, bd, task, current_task, files_to_lease,
                   leases, active_leases, ri, ai, failed, fsRest, fs, hbVars,
                   hb_running, histVars, observed, sig_at, thVars, aceVars,
                   restVars>>

\* Mutant of t_parse: the JSONDecodeError of an unparsable span is not
\* caught.
t_parse_RaisesOnBadJson ==
    /\ mpc = "t_parse"
    /\ ev' = Append(ev, "apply")
    /\ ai' = 1
    /\ exc' = IF result = "badjson" THEN "JSONDecodeError" ELSE exc
    /\ mpc' = IF result = "badjson" THEN "t_except"
              ELSE IF result = "plan" /\ planLen > 0 THEN "t_apply"
              ELSE "t_complete"
    /\ UNCHANGED <<running, iter, bd, task, current_task, files_to_lease,
                   leases, active_leases, ri, result, planLen, failed, fsRest,
                   fs, hbVars, hb_running, histVars, observed, sig_at,
                   thVars, aceVars, restVars>>

\* _execute_action_plan up to the loop: no JSON object returns, an
\* unparsable one is caught as JSONDecodeError.
t_parse ==
    /\ mpc = "t_parse"
    /\ ev' = Append(ev, "apply")
    /\ ai' = 1
    /\ mpc' = IF result = "plan" /\ planLen > 0 THEN "t_apply" ELSE "t_complete"
    /\ UNCHANGED <<running, iter, bd, task, current_task, files_to_lease,
                   leases, active_leases, ri, result, planLen, failed, fsRest,
                   exc, fs, hbVars, hb_running, histVars, observed, sig_at,
                   thVars, aceVars, restVars>>

\* Whether handling entry a changes the file system: a permitted write, or a
\* permitted delete of a file that exists.
Mutates(a, f, ls) ==
    /\ Allowed(a, ls)
    /\ \/ a.type = "write"
       \/ a.type = "delete" /\ f[a.file] # Absent

\* _execute_action_plan, one entry of the list (the entries are drawn when
\* the loop reaches them: nothing before depends on them). An exception
\* leaves the loop: the try statement encloses it, and the handler logs.
t_apply ==
    /\ mpc = "t_apply"
    /\ \E a \in PlanActions, io \in BOOLEAN :
         IF Raises(a, fs, leases, io)
           THEN /\ failed' = IF a = NonDict THEN "AttributeError" ELSE "OSError"
                /\ \E r \in SeqsOfLen(DictActions, planLen - ai) :
                     fsRest' = Fold(fs, r, leases)
                /\ mpc' = "t_complete"
                /\ UNCHANGED <<fs, ai, touched, skipped>>
           ELSE /\ fs' = Effect(a, fs, leases)
                /\ fsRest' = fs'
                /\ touched' = IF Mutates(a, fs, leases)
                                THEN touched \cup {a.file} ELSE touched
                /\ skipped' = IF a.file # None /\ ~Allowed(a, leases)
                                THEN skipped \cup {a.file} ELSE skipped
                /\ ai' = ai + 1
                /\ mpc' = IF ai = planLen THEN "t_complete" ELSE "t_apply"
                /\ UNCHANGED failed
    /\ UNCHANGED <<running, iter, bd, task, current_task, files_to_lease,
                   leases, active_leases, ri, result, planLen, exc, hbVars,
                   hb_running, ev, acquired, relReq, observed, sig_at,
                   thVars, aceVars, restVars>>

\* _execute_task: _update_task_status(task.id, "complete")
t_complete ==
    /\ mpc = "t_complete"
    /\ \E ok \in BOOLEAN : bd' = update_task_status(task, "complete", ok)
    /\ ev' = Append(ev, "complete")
    /\ mpc' = "t_reflect"
    /\ UNCHANGED <<running, iter, taskVars, fs, hbVars, hb_running, histVars,
                   observed, sig_at, thVars, aceVars, restVars>>

\* Mutant of t_reflect: reflect_on_task lets its exception out, into the
\* except clause of _execute_task.
t_reflect_Raises ==
    /\ mpc = "t_reflect"
    /\ ev' = Append(ev, "reflect_success")
    /\ exc' = "ReflectError"
    /\ mpc' = "t_except"
    /\ UNCHANGED <<running, iter, bd, task, current_task, files_to_lease,
                   leases, active_leases, ri, result, planLen, ai, failed,
                   fsRest, fs, hbVars, hb_running, histVars, observed, sig_at,
                   thVars, aceVars, restVars>>

\* Mutant of t_reflect: the lesson is recorded after the leases were released.
t_reflect_AfterRelease ==
    /\ mpc = "t_reflect"
    /\ ev' = ev \o [i \in 1..Len(active_leases) |-> "release_req"]
                \o <<"reflect_success">>
    /\ relReq' = relReq \cup
                   {active_leases[i].lease_id : i \in 1..Len(active_leases)}
    /\ ri' = Len(active_leases) + 1
    /\ mpc' = "t_release"
    /\ UNCHANGED <<running, iter, bd, task, current_task, files_to_lease,
                   leases, active_leases, result, planLen, ai, failed, fsRest,
                   exc, fs, hbVars, hb_running, touched, skipped, acquired,
                   observed, sig_at, thVars, aceVars, restVars>>

\* _execute_task: playbook.reflect_on_task(task, result.content, "success");
\* reflect_on_task catches what goes wrong inside it.
t_reflect ==
    /\ mpc = "t_reflect"
    /\ ev' = Append(ev, "reflect_success")
    /\ mpc' = "t_release"
    /\ UNCHANGED <<running, iter, bd, taskVars, fs, hbVars, hb_running,
                   histVars, observed, sig_at, thVars, aceVars, restVars>>

\* Mutant of t_except: the except clause marks the task complete.
t_except_MarksComplete ==
    /\ mpc = "t_except"
    /\ \E ok \in BOOLEAN : bd' = update_task_status(task, "complete", ok)
    /\ ev' = Append(ev, "complete")
    /\ mpc' = "t_except_reflect"
    /\ UNCHANGED <<running, iter, taskVars, fs, hbVars, hb_running, histVars,
                   observed, sig_at, thVars, aceVars, restVars>>

\* _execute_task, except clause: _update_task_status(task.id, "open")
t_except ==
    /\ mpc = "t_except"
    /\ \E ok \in BOOLEAN : bd' = update_task_status(task, "open", ok)
    /\ ev' = Append(ev, "open")
    /\ mpc' = "t_except_reflect"
    /\ UNCHANGED <<running, iter, taskVars, fs, hbVars, hb_running, histVars,
                   observed, sig_at, thVars, aceVars, restVars>>

\* _execute_task, except clause: reflect_on_task(task, "", f"error: {e}")
t_except_reflect ==
    /\ mpc = "t_except_reflect"
    /\ ev' = Append(ev, "reflect_error")
    /\ mpc' = "t_release"
    /\ UNCHANGED <<running, iter, bd, taskVars, fs, hbVars, hb_running,
                   histVars, observed, sig_at, thVars, aceVars, restVars>>

\* Mutant of t_release: an exception of a release request leaves the loop.
t_release_AbortOnError ==
    /\ mpc = "t_release"
    /\ ri <= Len(active_leases)
    /\ \E r \in {"released", "rejected", "error"} :
         /\ relReq' = relReq \cup {active_leases[ri].lease_id}
         /\ ri' = IF r = "error" THEN Len(active_leases) + 1 ELSE ri + 1
    /\ ev' = Append(ev, "release_req")
    /\ UNCHANGED <<running, mpc, iter, bd, task, current_task, files_to_lease,
                   leases, active_leases, result, planLen, ai, failed, fsRest,
                   exc, fs, hbVars, hb_running, touched, skipped, acquired,
                   observed, sig_at, thVars, aceVars, restVars>>

\* Mutant of t_release: a release that did not succeed is posted again.
t_release_RetriesFailed ==
    /\ mpc = "t_release"
    /\ ri <= Len(active_leases)
    /\ \E r \in {"released", "rejected", "error"} :
         /\ relReq' = relReq \cup {active_leases[ri].lease_id}
         /\ ri' = IF r = "released" THEN ri + 1 ELSE ri
    /\ ev' = Append(ev, "release_req")
    /\ UNCHANGED <<running, mpc, iter, bd, task, current_task, files_to_lease,
                   leases, active_leases, result, planLen, ai, failed, fsRest,
                   exc, fs, hbVars, hb_running, touched, skipped, acquired,
                   observed, sig_at, thVars, aceVars, restVars>>

\* _release_all_leases, one lease: the release request is posted; a
\* rejection or an exception is logged and the loop goes on.
t_release ==
    /\ mpc = "t_release"
    /\ ri <= Len(active_leases)
    /\ \E r \in {"released", "rejected", "error"} :
         relReq' = relReq \cup {active_leases[ri].lease_id}
    /\ ri' = ri + 1
    /\ ev' = Append(ev, "release_req")
    /\ UNCHANGED <<running, mpc, iter, bd, task, current_task, files_to_lease,
                   leases, active_leases, result, planLen, ai, failed, fsRest,
                   exc, fs, hbVars, hb_running, touched, skipped, acquired,
                   observed, sig_at, thVars, aceVars, restVars>>

\* Mutant of t_finish: the finally clause leaves active_leases and
\* current_task as they are.
t_finish_KeepsTask ==
    /\ mpc = "t_release"
    /\ ri > Len(active_leases)
    /\ update_status("idle", None, None)
    /\ ev' = Append(ev, "idle")
    /\ mpc' = "sleep"
    /\ UNCHANGED <<running, iter, bd, taskVars, fs, hb_running, histVars,
                   observed, sig_at, thVars, aceVars, restVars>>

\* End of the finally clause: active_leases.clear(), current_task = None,
\* update_status("idle"); iterate() returns.
t_finish ==
    /\ mpc = "t_release"
    /\ ri > Len(active_leases)
    /\ active_leases' = <<>>
    /\ current_task' = None
    /\ update_status("idle", None, None)
    /\ ev' = Append(ev, "idle")
    /\ mpc' = "sleep"
    /\ UNCHANGED <<running, iter, bd, task, files_to_lease, leases, ri, result,
                   planLen, ai, failed, fsRest, exc, fs, hb_running, histVars,
                   observed, sig_at, thVars, aceVars, restVars>>

\* run(): time.sleep(1) after iterate() returned
sleep ==
    /\ mpc = "sleep"
    /\ mpc' = "run_loop"
    /\ UNCHANGED <<running, iter, bd, taskVars, fs, hbVars, hb_running, ev,
                   histVars, observed, sig_at, thVars, aceVars, restVars>>

\* shutdown(): heartbeat_manager.stop() clears its flag and posts a final
\* heartbeat with status "offline".
shutdown_stop ==
    /\ mpc = "shutdown"
    /\ IF hb_running
         THEN /\ hb_running' = FALSE
              /\ \E ok \in BOOLEAN :
                   send_heartbeat("offline", hb_task, hb_error, ok)
         ELSE UNCHANGED <<hb_running, payload, backoff_time>>
    /\ mpc' = "cleanup"
    /\ UNCHANGED <<running, iter, bd, taskVars, fs, hb_status, hb_task,
                   hb_error, ev, histVars, observed, sig_at, thVars, aceVars,
                   restVars>>

\* shutdown(): phase_loop.cleanup() calls _release_all_leases: a release
\* request for every lease active_leases holds, then the list is cleared.
cleanup ==
    /\ mpc = "cleanup"
    /\ relReq' = relReq \cup
                   {active_leases[i].lease_id : i \in 1..Len(active_leases)}
    /\ ev' = ev \o [i \in 1..Len(active_leases) |-> "release_req"]
    /\ active_leases' = <<>>
    /\ mpc' = "exited"
    /\ UNCHANGED <<running, iter, bd, task, current_task, files_to_lease,
                   leases, ri, result, planLen, ai, failed, fsRest, exc, fs,
                   hbVars, hb_running, touched, skipped, acquired,
                   observed, sig_at, thVars, aceVars, restVars>>

Next ==
    \/ signal_handler
    \/ run_start
    \/ run_iterate
    \/ run_exit
    \/ poll
    \/ t_start
    \/ t_working
    \/ t_identify
    \/ t_lease
    \/ t_retrieve
    \/ t_llm
    \/ t_parse
    \/ t_apply
    \/ t_complete
    \/ t_reflect
    \/ t_except
    \/ t_except_reflect
    \/ t_release
    \/ t_finish
    \/ sleep
    \/ shutdown_stop
    \/ cleanup

Spec == Init /\ [][Next]_vars

\* ----------------------------------------- SpecHB: the shared status record
\* What the heartbeat thread does not touch in SpecHB.
mainVars == <<running, mpc, iter, bd, taskVars, fs, hb_running, ev, histVars,
              observed, sig_at>>

\* The calls of update_status the sources make: working with the task id
\* (_execute_task), idle (iterate, _execute_task), error with a message
\* (iterate, run).
HBCalls ==
    {<<"working", t, None>> : t \in TaskIds}
      \cup {<<"idle", None, None>>, <<"error", None, "err">>}

\* update_status: old_status = self.status; self.status = status
us_begin(c) ==
    /\ upc = "none"
    /\ calls < MaxCalls
    /\ calls' = calls + 1
    /\ u_args' = c
    /\ u_prev' = u_args
    /\ old_status' = hb_status
    /\ hb_status' = c[1]
    /\ upc' = "w_task"
    /\ UNCHANGED <<restVars, aceVars, u_backoff, t_backoff>>
    /\ UNCHANGED <<mainVars, hb_task, hb_error, backoff_time, payload, written,
                   tpc, p_status, p_task, p_error, beats>>

\* update_status: self.current_task = current_task
us_w_task ==
    /\ upc = "w_task"
    /\ hb_task' = u_args[2]
    /\ upc' = "w_error"
    /\ UNCHANGED <<restVars, aceVars, u_prev, u_backoff, t_backoff>>
    /\ UNCHANGED <<mainVars, hb_status, hb_error, backoff_time, payload,
                   u_args, old_status, written, calls, tpc, p_status, p_task,
                   p_error, beats>>

\* Mutant of us_w_error: the heartbeat is sent whatever the status was.
us_w_error_AlwaysSends ==
    /\ upc = "w_error"
    /\ hb_error' = u_args[3]
    /\ written' = written \cup {u_args}
    /\ upc' = "send"
    /\ UNCHANGED <<restVars, aceVars, u_prev, u_backoff, t_backoff>>
    /\ UNCHANGED <<mainVars, hb_status, hb_task, backoff_time, payload, u_args,
                   old_status, calls, tpc, p_status, p_task, p_error, beats>>

\* update_status: self.error = error; then the test old_status != status
us_w_error ==
    /\ upc = "w_error"
    /\ hb_error' = u_args[3]
    /\ written' = written \cup {u_args}
    /\ upc' = IF old_status # u_args[1] THEN "send" ELSE "none"
    /\ UNCHANGED <<restVars, aceVars, u_prev, u_backoff, t_backoff>>
    /\ UNCHANGED <<mainVars, hb_status, hb_task, backoff_time, payload, u_args,
                   old_status, calls, tpc, p_status, p_task, p_error, beats>>

\* update_status: self._send_heartbeat() in the calling thread, which is the
\* only writer of the record. A 200 answer stores back-off 1; after any
\* other outcome _handle_connection_failure reads backoff_time and computes
\* the new value.
us_send ==
    /\ upc = "send"
    /\ payload' = [status |-> hb_status, current_task |-> hb_task,
                   error |-> hb_error]
    /\ \E ok \in BOOLEAN :
         IF ok
           THEN /\ backoff_time' = 1
                /\ upc' = "none"
                /\ UNCHANGED u_backoff
           ELSE /\ u_backoff' = handle_connection_failure(backoff_time)
                /\ upc' = "backoff"
                /\ UNCHANGED backoff_time
    /\ UNCHANGED <<restVars, aceVars, u_prev, t_backoff>>
    /\ UNCHANGED <<mainVars, hb_status, hb_task, hb_error, u_args, old_status,
                   written, calls, tpc, p_status, p_task, p_error, beats>>

\* _handle_connection_failure in update_status: self.backoff_time = ...
us_backoff ==
    /\ upc = "backoff"
    /\ backoff_time' = u_backoff
    /\ upc' = "none"
    /\ UNCHANGED <<restVars, aceVars, u_prev, u_backoff, t_backoff>>
    /\ UNCHANGED <<mainVars, hb_status, hb_task, hb_error, payload, u_args,
                   old_status, written, calls, tpc, p_status, p_task, p_error,
                   beats>>

\* _heartbeat_loop: `while self.running`, then _send_heartbeat builds the
\* payload with "status": status or self.status
th_begin ==
    /\ tpc = "loop"
    /\ hb_running
    /\ beats < MaxBeats
    /\ p_status' = hb_status
    /\ p_task' = None
    /\ p_error' = None
    /\ tpc' = "test_task"
    /\ UNCHANGED <<restVars, aceVars, u_prev, u_backoff, t_backoff>>
    /\ UNCHANGED <<mainVars, hbVars, upc, u_args, old_status, written, calls,
                   beats>>

\* _send_heartbeat: `if self.current_task:`
th_test_task ==
    /\ tpc = "test_task"
    /\ tpc' = IF hb_task # None THEN "copy_task" ELSE "test_error"
    /\ UNCHANGED <<restVars, aceVars, u_prev, u_backoff, t_backoff>>
    /\ UNCHANGED <<mainVars, hbVars, upc, u_args, old_status, written, calls,
                   p_status, p_task, p_error, beats>>

\* _send_heartbeat: payload["current_task"] = self.current_task
th_copy_task ==
    /\ tpc = "copy_task"
    /\ p_task' = hb_task
    /\ tpc' = "test_error"
    /\ UNCHANGED <<restVars, aceVars, u_prev, u_backoff, t_backoff>>
    /\ UNCHANGED <<mainVars, hbVars, upc, u_args, old_status, written, calls,
                   p_status, p_error, beats>>

\* _send_heartbeat: `if self.error:`
th_test_error ==
    /\ tpc = "test_error"
    /\ tpc' = IF hb_error # None THEN "copy_error" ELSE "post"
    /\ UNCHANGED <<restVars, aceVars, u_prev, u_backoff, t_backoff>>
    /\ UNCHANGED <<mainVars, hbVars, upc, u_args, old_status, written, calls,
                   p_status, p_task, p_error, beats>>

\* _send_heartbeat: payload["error"] = self.error
th_copy_error ==
    /\ tpc = "copy_error"
    /\ p_error' = hb_error
    /\ tpc' = "post"
    /\ UNCHANGED <<restVars, aceVars, u_prev, u_backoff, t_backoff>>
    /\ UNCHANGED <<mainVars, hbVars, upc, u_args, old_status, written, calls,
                   p_status, p_task, beats>>

\* _send_heartbeat: requests.post and its outcome; a 200 answer stores
\* back-off 1 and the loop sleeps; after any other outcome
\* _handle_connection_failure reads backoff_time and computes the new value.
th_post ==
    /\ tpc = "post"
    /\ payload' = [status |-> p_status, current_task |-> p_task,
                   error |-> p_error]
    /\ \E ok \in BOOLEAN :
         IF ok
           THEN /\ backoff_time' = 1
                /\ tpc' = "loop"
                /\ UNCHANGED t_backoff
           ELSE /\ t_backoff' = handle_connection_failure(backoff_time)
                /\ tpc' = "backoff"
                /\ UNCHANGED backoff_time
    /\ beats' = beats + 1
    /\ UNCHANGED <<restVars, aceVars, u_prev, u_backoff>>
    /\ UNCHANGED <<mainVars, hb_status, hb_task, hb_error, upc, u_args,
                   old_status, written, calls, p_status, p_task, p_error>>

\* _handle_connection_failure in the thread: self.backoff_time = ...
th_backoff ==
    /\ tpc = "backoff"
    /\ backoff_time' = t_backoff
    /\ tpc' = "loop"
    /\ UNCHANGED <<restVars, aceVars, u_prev, u_backoff, t_backoff>>
    /\ UNCHANGED <<mainVars, hb_status, hb_task, hb_error, payload, upc,
                   u_args, old_status, written, calls, p_status, p_task,
                   p_error, beats>>

InitHB ==
    /\ Constructed
    /\ FreshStore
    /\ bd = [id \in TaskIds |-> "open"]
    /\ mpc = "run_loop"
    /\ hb_running = TRUE
    /\ RestIdle

NextHB ==
    \/ \E c \in HBCalls : us_begin(c)
    \/ us_w_task
    \/ us_w_error
    \/ us_send
    \/ us_backoff
    \/ th_begin
    \/ th_test_task
    \/ th_copy_task
    \/ th_test_error
    \/ th_copy_error
    \/ th_post
    \/ th_backoff

SpecHB == InitHB /\ [][NextHB]_vars

\* ------------------------------------- SpecStop: stop() and the thread
\* _heartbeat_loop: `while self.running` is false and the thread ends.
th_exit ==
    /\ tpc = "loop"
    /\ ~hb_running
    /\ tpc' = "ended"
    /\ UNCHANGED <<restVars, aceVars, u_prev, u_backoff, t_backoff>>
    /\ UNCHANGED <<mainVars, hbVars, upc, u_args, old_status, written, calls,
                   p_status, p_task, p_error, beats>>

\* stop(): `if not self.running: return`, else self.running = False
st_begin ==
    /\ mpc = "stop"
    /\ hb_running' = FALSE
    /\ mpc' = IF hb_running THEN "stop_join" ELSE "stopped"
    /\ UNCHANGED <<running, iter, bd, taskVars, fs, ev, histVars, observed,
                   sig_at, hbVars, thVars, aceVars, restVars>>

\* stop(): self.thread.join(timeout=5) returns when the thread has ended,
\* or after 5 seconds with the thread alive: the sleeps of the thread test
\* self.running every second, but its requests.post can take longer.
st_join ==
    /\ mpc = "stop_join"
    /\ tpc \in {"ended", "post"}
    /\ mpc' = "stop_send"
    /\ UNCHANGED <<running, iter, bd, taskVars, fs, hb_running, ev, histVars,
                   observed, sig_at, hbVars, thVars, aceVars, restVars>>

\* stop(): self._send_heartbeat(status="offline") and the return.
st_send ==
    /\ mpc = "stop_send"
    /\ \E ok \in BOOLEAN : send_heartbeat("offline", hb_task, hb_error, ok)
    /\ mpc' = "stopped"
    /\ UNCHANGED <<running, iter, bd, taskVars, fs, hb_running, hb_status,
                   hb_task, hb_error, ev, histVars, observed, sig_at, thVars,
                   aceVars, restVars>>

\* stop() is called on a manager that start() was called on, or was not.
InitStop ==
    /\ Constructed
    /\ FreshStore
    /\ bd = [id \in TaskIds |-> "open"]
    /\ mpc = "stop"
    /\ hb_running \in BOOLEAN
    /\ RestIdle

NextStop ==
    \/ st_begin
    \/ st_join
    \/ st_send
    \/ th_begin
    \/ th_test_task
    \/ th_test_error
    \/ th_post
    \/ th_backoff
    \/ th_exit

SpecStop == InitStop /\ [][NextStop]_vars

\* ------------------------------------------------------------ ACEPlaybook
\* A text is the sequence of its whitespace-separated words; a score is kept
\* in thousandths (Unit is relevance_score = 1.0) and a product is rounded
\* down to a thousandth where the float product is rounded to a double.
Unit == 1000

\* The max_lessons argument the playbook is constructed with.
max_lessons == 2

MaxStore == 3
MaxOps == 2
MaxK == 2

Max(a, b) == IF a > b THEN a ELSE b

\* playbook.json: missing, not parsable, or holding a JSON record.
AbsentFile == [kind |-> "absent", data |-> <<>>]
CorruptFile == [kind |-> "corrupt", data |-> <<>>]
JsonFile(record) == [kind |-> "json", data |-> <<record>>]

\* No second playbook has been constructed.
NotLoaded == [made |-> FALSE, lessons |-> <<>>]

LessonFields ==
    {"lesson_id", "context", "action", "outcome", "learned", "task_type",
     "relevance_score", "created_at"}

\* set(text.lower().split())
Words(text) == {Lower(text[i]) : i \in 1..Len(text)}

\* The keywords of the categorizers that occur in a lower-cased word.
Keywords(w) ==
    CASE w \in {"testing", "tests"} -> {"test"}
      [] w \in {"implementation", "implement"} -> {"implement"}
      [] w \in {"planning", "plan"} -> {"plan"}
      [] w \in {"refactoring", "refactor"} -> {"refactor"}
      [] w = "fix" -> {"fix"}
      [] w = "bug" -> {"bug"}
      [] w = "add" -> {"add"}
      [] w = "code" -> {"code"}
      [] w = "design" -> {"design"}
      [] OTHER -> {}

\* `kw in text.lower()` for a keyword without white space.
Has(kw, text) == \E i \in 1..Len(text) : kw \in Keywords(Lower(text[i]))

\* _categorize_task: phase and title of the task.
categorize_task(t) ==
    LET phase == <<t.phase>>
        title == t.title IN
      IF Has("test", phase) \/ Has("test", title) THEN "testing"
      ELSE IF Has("implement", phase) \/ Has("code", title)
                \/ Has("add", title) THEN "implementation"
      ELSE IF Has("plan", phase) \/ Has("design", title) THEN "planning"
      ELSE IF Has("refactor", phase) \/ Has("refactor", title)
        THEN "refactoring"
      ELSE IF Has("bug", title) \/ Has("fix", title) THEN "bugfix"
      ELSE "general"

\* _categorize_task_from_description: phase and description of the query.
categorize_task_from_description(ph, description) ==
    LET phase == <<ph>> IN
      IF Has("test", phase) \/ Has("test", description) THEN "testing"
      ELSE IF Has("implement", phase) \/ Has("code", description)
        THEN "implementation"
      ELSE IF Has("plan", phase) \/ Has("design", description) THEN "planning"
      ELSE IF Has("refactor", phase) \/ Has("refactor", description)
        THEN "refactoring"
      ELSE IF Has("bug", description) \/ Has("fix", description) THEN "bugfix"
      ELSE "general"

\* The outcomes that start with "error", and the message after "error: ".
ErrorOutcomes == {"error: boom"}

\* _extract_key_learning
extract_key_learning(t, outcome) ==
    IF outcome = "success"
      THEN <<"Successfully", "completed", t.phase, "task:">> \o t.title
    ELSE IF outcome \in ErrorOutcomes
      THEN <<"Encountered", "error", "in", t.phase, "boom.", "Need", "better",
             "error", "handling.">>
    ELSE <<"Completed", "task", "with", "outcome:", outcome>>

\* _extract_lesson_from_task at time now: the id is a digest of the task id,
\* the phase and the time.
extract_lesson_from_task(t, outcome, now) ==
    [lesson_id |-> <<t.id, t.phase, now>>,
     context |-> <<"Task", "in", t.phase, "phase:">> \o t.title,
     action |-> "Executed task",
     outcome |-> outcome,
     learned |-> extract_key_learning(t, outcome),
     task_type |-> categorize_task(t),
     relevance_score |-> Unit,
     created_at |-> now]

\* Mutant of lessons_similar: a quotient of 0.6 is enough.
lessons_similar_FromSixTenths(lesson1, lesson2) ==
    IF lesson1.task_type # lesson2.task_type THEN FALSE
    ELSE LET words1 == Words(lesson1.context)
             words2 == Words(lesson2.context) IN
           IF words1 = {} \/ words2 = {} THEN FALSE
           ELSE 10 * Cardinality(words1 \cap words2)
                  >= 6 * Cardinality(words1 \cup words2)

\* _lessons_similar: same task_type, both contexts with a word, and the
\* quotient of shared and distinct words above 0.6.
lessons_similar(lesson1, lesson2) ==
    IF lesson1.task_type # lesson2.task_type THEN FALSE
    ELSE LET words1 == Words(lesson1.context)
             words2 == Words(lesson2.context) IN
           IF words1 = {} \/ words2 = {} THEN FALSE
           ELSE 10 * Cardinality(words1 \cap words2)
                  > 6 * Cardinality(words1 \cup words2)

\* `a in b` for two texts.
IsSubstring(a, b) ==
    \E i \in 0..(Len(b) - Len(a)) : SubSeq(b, i + 1, i + Len(a)) = a

\* Mutant of merge_lessons: the context of the new lesson is taken over.
merge_lessons_TakesContext(existing, new) ==
    [existing EXCEPT
       !.relevance_score = Min(@ + Unit \div 10, 2 * Unit),
       !.context = new.context,
       !.learned = IF IsSubstring(new.learned, @)
                     THEN @ ELSE @ \o <<"|">> \o new.learned]

\* Mutant of merge_lessons: the score goes up by 0.1 without a limit.
merge_lessons_NoCap(existing, new) ==
    [existing EXCEPT
       !.relevance_score = @ + Unit \div 10,
       !.learned = IF IsSubstring(new.learned, @)
                     THEN @ ELSE @ \o <<"|">> \o new.learned]

\* _merge_lessons: the score goes up by 0.1, to 2.0 at most; the new insight
\* is appended after " | " unless the text already holds it.
merge_lessons(existing, new) ==
    [existing EXCEPT
       !.relevance_score = Min(@ + Unit \div 10, 2 * Unit),
       !.learned = IF IsSubstring(new.learned, @)
                     THEN @ ELSE @ \o <<"|">> \o new.learned]

\* Mutant of add_lesson: merged into the last similar lesson.
add_lesson_MergesLast(ls, lesson) ==
    IF \E i \in 1..Len(ls) : lessons_similar(ls[i], lesson)
      THEN LET i == CHOOSE i \in 1..Len(ls) :
                      /\ lessons_similar(ls[i], lesson)
                      /\ \A j \in (i + 1)..Len(ls) :
                           ~lessons_similar(ls[j], lesson)
           IN [ls EXCEPT ![i] = merge_lessons(ls[i], lesson)]
      ELSE Append(ls, lesson)

\* _add_lesson: merged into the first similar lesson, appended otherwise.
add_lesson(ls, lesson) ==
    IF \E i \in 1..Len(ls) : lessons_similar(ls[i], lesson)
      THEN LET i == CHOOSE i \in 1..Len(ls) :
                      /\ lessons_similar(ls[i], lesson)
                      /\ \A j \in 1..(i - 1) : ~lessons_similar(ls[j], lesson)
           IN [ls EXCEPT ![i] = merge_lessons(ls[i], lesson)]
      ELSE Append(ls, lesson)

\* Mutant of InsertDesc: of equal keys the later one comes first.
RECURSIVE InsertDesc_TiesFirst(_, _)
InsertDesc_TiesFirst(x, s) ==
    IF s = <<>> THEN <<x>>
    ELSE IF Head(s)[1] > x[1]
      THEN <<Head(s)>> \o InsertDesc_TiesFirst(x, Tail(s))
    ELSE <<x>> \o s

\* list.sort(key=..., reverse=True) on a list of <<key, item>> pairs: by
\* descending key, equal keys in their order in the list.
RECURSIVE InsertDesc(_, _)
InsertDesc(x, s) ==
    IF s = <<>> THEN <<x>>
    ELSE IF Head(s)[1] >= x[1] THEN <<Head(s)>> \o InsertDesc(x, Tail(s))
    ELSE <<x>> \o s

RECURSIVE sort_reverse(_)
sort_reverse(s) ==
    IF s = <<>> THEN <<>>
    ELSE InsertDesc(s[Len(s)], sort_reverse(SubSeq(s, 1, Len(s) - 1)))

\* s[:k] of Python, for k of either sign.
Slice(s, k) ==
    IF k >= 0 THEN SubSeq(s, 1, Min(k, Len(s)))
    ELSE SubSeq(s, 1, Max(Len(s) + k, 0))

\* Mutant of curate_playbook: the list is pruned and decayed but not sorted.
curate_playbook_NoSort(ls) ==
    LET kept == IF Len(ls) > max_lessons
                  THEN SubSeq(ls, 1, max_lessons) ELSE ls
    IN [i \in 1..Len(kept) |->
          [kept[i] EXCEPT !.relevance_score = (@ * 99) \div 100]]

\* Mutant of curate_playbook: the list is pruned before it is sorted.
curate_playbook_PrunesFirst(ls) ==
    LET first == IF Len(ls) > max_lessons
                   THEN SubSeq(ls, 1, max_lessons) ELSE ls
        sorted == sort_reverse([i \in 1..Len(first) |->
                                  <<first[i].relevance_score, first[i]>>])
    IN [i \in 1..Len(sorted) |->
          [sorted[i][2] EXCEPT !.relevance_score = (@ * 99) \div 100]]

\* _curate_playbook: sort by score, keep the first max_lessons, decay.
curate_playbook(ls) ==
    LET keyed == [i \in 1..Len(ls) |-> <<ls[i].relevance_score, ls[i]>>]
        sorted == sort_reverse(keyed)
        kept == IF Len(sorted) > max_lessons
                  THEN SubSeq(sorted, 1, max_lessons) ELSE sorted
    IN [i \in 1..Len(kept) |->
          [kept[i][2] EXCEPT !.relevance_score = (@ * 99) \div 100]]

\* Mutant of calculate_relevance: the boost for a matching task type is
\* left out.
calculate_relevance_NoBoost(lesson, phase, task_description) ==
    lesson.relevance_score
      + Cardinality(Words(task_description) \cap Words(lesson.context))
          * (Unit \div 10)

\* _calculate_relevance: the stored score, times 1.5 when the lesson's type
\* is the category of the query, plus 0.1 for every word the description
\* shares with the lesson's context.
calculate_relevance(lesson, phase, task_description) ==
    LET task_type == categorize_task_from_description(phase, task_description)
        base == IF lesson.task_type = task_type
                  THEN (lesson.relevance_score * 3) \div 2
                  ELSE lesson.relevance_score
        overlap == Cardinality(Words(task_description)
                                 \cap Words(lesson.context))
    IN base + overlap * (Unit \div 10)

\* Lesson.to_dict: asdict, the fields by name.
to_dict(lesson) == [f \in LessonFields |-> lesson[f]]

\* Lesson.from_dict: cls(**data) takes exactly the fields as keywords.
from_dict(data) ==
    [lesson_id |-> data["lesson_id"], context |-> data["context"],
     action |-> data["action"], outcome |-> data["outcome"],
     learned |-> data["learned"], task_type |-> data["task_type"],
     relevance_score |-> data["relevance_score"],
     created_at |-> data["created_at"]]

\* get_relevant_lessons: nothing from an empty store; else every lesson is
\* scored, the pairs are sorted by descending score and the first
\* max_lessons of them are returned as dictionaries.
get_relevant_lessons(ls, phase, task_description, k) ==
    IF ls = <<>> THEN <<>>
    ELSE LET scored_lessons ==
               [i \in 1..Len(ls) |->
                  <<calculate_relevance(ls[i], phase, task_description),
                    ls[i]>>]
             top == Slice(sort_reverse(scored_lessons), k)
         IN [i \in 1..Len(top) |-> to_dict(top[i][2])]

\* json.dump / json.load of one value: a str is written as a JSON string
\* and a float as a JSON number (repr, the shortest text that reads back
\* as the same float), and each is read back as what it was.
JsonString(v) == [json |-> "string", text |-> v]

\* Mutant of JsonNumber: the number is written with two decimals.
JsonNumber_Rounded(v) == [json |-> "number", text |-> (v \div 10) * 10]

JsonNumber(v) == [json |-> "number", text |-> v]

JsonLoad(j) == j.text

\* json.dump of the dictionary of a lesson.
JsonLesson(d) ==
    [f \in LessonFields |->
       IF f = "relevance_score" THEN JsonNumber(d[f]) ELSE JsonString(d[f])]

\* _save_playbook, when nothing fails: the file is opened with 'w' and gets
\* the record of agent_name, updated_at and the dictionaries of the lessons.
save_playbook(ls, now) ==
    JsonFile([agent_name |-> JsonString("agent"),
              updated_at |-> JsonString(now),
              lessons |-> [i \in 1..Len(ls) |-> JsonLesson(to_dict(ls[i]))]])

\* Mutant of load_playbook: an entry that is no lesson is skipped and the
\* other entries are loaded.
load_playbook_SkipsInvalid(d) ==
    IF d.kind # "json" THEN <<>>
    ELSE LET entries == d.data[1].lessons
             valid == SelectSeq(entries, LAMBDA e : DOMAIN e = LessonFields)
         IN [i \in 1..Len(valid) |->
               from_dict([f \in LessonFields |-> JsonLoad(valid[i][f])])]

\* _load_playbook: no file gives no lessons; so does a file that cannot be
\* parsed, or one with an entry whose keys are not exactly the fields (the
\* exception empties the list); else every entry becomes a Lesson.
load_playbook(d) ==
    IF d.kind # "json" THEN <<>>
    ELSE LET entries == d.data[1].lessons IN
           IF \E i \in 1..Len(entries) : DOMAIN entries[i] # LessonFields
             THEN <<>>
           ELSE [i \in 1..Len(entries) |->
                   from_dict([f \in LessonFields |-> JsonLoad(entries[i][f])])]

\* The lessons of the playbook files the model starts from: two whose
\* contexts share 3 of 5 distinct words, one as reflect_on_task records it,
\* one without a context.
LessonPool ==
    { [lesson_id |-> <<"p1", "impl", 0>>,
       context |-> <<"implement", "user", "authentication", "system">>,
       action |-> "action", outcome |-> "success",
       learned |-> <<"learned">>, task_type |-> "implementation",
       relevance_score |-> 1000, created_at |-> 0],
      [lesson_id |-> <<"p2", "impl", 0>>,
       context |-> <<"implement", "User", "authentication", "feature">>,
       action |-> "action", outcome |-> "success",
       learned |-> <<"insight">>, task_type |-> "implementation",
       relevance_score |-> 1200, created_at |-> 0],
      [lesson_id |-> <<"p3", "impl", 0>>,
       context |-> <<"Task", "in", "impl", "phase:", "user", "login", "form">>,
       action |-> "action", outcome |-> "success",
       learned |-> <<"Successfully", "completed", "impl", "task:", "user",
                     "login", "form">>,
       task_type |-> "general",
       relevance_score |-> 1089, created_at |-> 0],
      [lesson_id |-> <<"p4", "testing", 0>>, context |-> <<>>,
       action |-> "action", outcome |-> "error: boom",
       learned |-> <<"learned">>, task_type |-> "testing",
       relevance_score |-> 1200, created_at |-> 0] }

RECURSIVE SeqsUpTo(_, _)
SeqsUpTo(S, n) ==
    IF n = 0 THEN {<<>>}
    ELSE LET shorter == SeqsUpTo(S, n - 1) IN
           shorter \cup {Append(q, x) : q \in shorter, x \in S}

\* The lesson lists of at most MaxStore lessons, each lesson at most once.
Stores ==
    {st \in SeqsUpTo(LessonPool, MaxStore) :
       \A i, j \in 1..Len(st) : st[i] = st[j] => i = j}

\* A record one of whose entries lacks a field.
InvalidFile ==
    LET entry == JsonLesson(to_dict(CHOOSE l \in LessonPool : l.context = <<>>))
    IN JsonFile([agent_name |-> JsonString("agent"),
                 updated_at |-> JsonString(0),
                 lessons |->
                   <<[f \in LessonFields \ {"created_at"} |-> entry[f]]>>])

\* A record whose first entry is a lesson and whose second lacks a field.
PartlyInvalidFile ==
    LET first == CHOOSE l \in LessonPool : l.lesson_id[1] = "p1"
        valid == JsonLesson(to_dict(first))
    IN JsonFile([agent_name |-> JsonString("agent"),
                 updated_at |-> JsonString(0),
                 lessons |->
                   <<valid, [f \in LessonFields \ {"learned"} |-> valid[f]]>>])

\* What playbook.json can hold when the playbook is constructed.
InitialFiles ==
    {AbsentFile, CorruptFile, InvalidFile, PartlyInvalidFile}
      \cup {save_playbook(st, 0) : st \in Stores}

\* The calls of reflect_on_task: the task (id, phase, title) and the outcome.
ReflectCalls ==
    { <<[id |-> "t1", phase |-> "impl",
         title |-> <<"user", "login", "form", "check">>], "success">>,
      <<[id |-> "t2", phase |-> "impl",
         title |-> <<"User", "login", "page", "style">>], "success">>,
      <<[id |-> "t1", phase |-> "impl",
         title |-> <<"user", "login", "form", "check">>], "error: boom">>,
      <<[id |-> "t3", phase |-> "testing",
         title |-> <<"fix", "login">>], "success">> }

\* The calls of get_relevant_lessons: phase and description.
Queries ==
    { <<"implementation", <<"implement", "User">> >>,
      <<"testing", <<"user", "login", "form">> >> }

\* ----------------------------------------------------- SpecACE: the actions
\* reflect_on_task: the lesson of the task is added or merged, the playbook
\* is curated and saved; the save can fail before or while it writes.
reflect_on_task(c) ==
    /\ nops < MaxOps
    /\ LET lesson == extract_lesson_from_task(c[1], c[2], nops + 1)
           added == add_lesson(lessons, lesson)
           curated == curate_playbook(added) IN
         /\ pre' = added
         /\ lessons' = curated
         /\ \E w \in {"ok", "open_failed", "write_failed"} :
              /\ disk' = CASE w = "ok" -> save_playbook(curated, nops + 1)
                           [] w = "open_failed" -> disk
                           [] OTHER -> CorruptFile
              /\ saved' = (w = "ok")
    /\ last' = "reflect"
    /\ query' = <<>>
    /\ out' = <<>>
    /\ loaded' = NotLoaded
    /\ nops' = nops + 1
    /\ UNCHANGED <<mainVars, hbVars, thVars, restVars, subject>>

\* _curate_playbook called on the playbook as it is.
curate ==
    /\ nops < MaxOps
    /\ pre' = lessons
    /\ lessons' = curate_playbook(lessons)
    /\ saved' = FALSE
    /\ last' = "curate"
    /\ query' = <<>>
    /\ out' = <<>>
    /\ loaded' = NotLoaded
    /\ nops' = nops + 1
    /\ UNCHANGED <<mainVars, hbVars, thVars, restVars, subject, disk>>

\* _save_playbook called on the playbook as it is.
save ==
    /\ nops < MaxOps
    /\ \E w \in {"ok", "open_failed", "write_failed"} :
         /\ disk' = CASE w = "ok" -> save_playbook(lessons, nops + 1)
                      [] w = "open_failed" -> disk
                      [] OTHER -> CorruptFile
         /\ saved' = (w = "ok")
    /\ last' = "save"
    /\ query' = <<>>
    /\ out' = <<>>
    /\ loaded' = NotLoaded
    /\ nops' = nops + 1
    /\ UNCHANGED <<mainVars, hbVars, thVars, restVars, subject, lessons, pre>>

\* get_relevant_lessons(phase, task_description, max_lessons=k)
retrieve(q, k) ==
    /\ nops < MaxOps
    /\ query' = <<q[1], q[2], k>>
    /\ out' = get_relevant_lessons(lessons, q[1], q[2], k)
    /\ last' = "retrieve"
    /\ nops' = nops + 1
    /\ UNCHANGED <<mainVars, hbVars, thVars, restVars, subject, lessons, disk,
                   pre, loaded, saved>>

\* ACEPlaybook(agent_name) constructed again: it loads the file.
construct ==
    /\ nops < MaxOps
    /\ loaded' = [made |-> TRUE, lessons |-> load_playbook(disk)]
    /\ last' = "construct"
    /\ nops' = nops + 1
    /\ UNCHANGED <<mainVars, hbVars, thVars, restVars, subject, lessons, disk,
                   pre, query, out, saved>>

\* The playbook constructed over a file, before run() is called.
InitACE ==
    /\ Constructed
    /\ bd = [id \in TaskIds |-> "open"]
    /\ mpc = "run"
    /\ hb_running = FALSE
    /\ disk \in InitialFiles
    /\ lessons = load_playbook(disk)
    /\ last = "init"
    /\ pre = <<>>
    /\ query = <<>>
    /\ out = <<>>
    /\ loaded = NotLoaded
    /\ saved = FALSE
    /\ nops = 0
    /\ subject = None
    /\ RestIdle

NextACE ==
    \/ \E c \in ReflectCalls : reflect_on_task(c)
    \/ curate
    \/ save
    \/ \E q \in Queries, k \in (0 - 1)..MaxK : retrieve(q, k)
    \/ construct

SpecACE == InitACE /\ [][NextACE]_vars

\* --------------------------------- SpecReflect: reflections on a new store
\* The playbook of an agent without playbook.json, on which reflect_on_task
\* is called MaxReflects times at most.
MaxReflects == 13

\* The calls of the run: the reflections on one task, which are merged.
RunCalls == {c \in ReflectCalls : c[1].id = "t1"}

\* reflect_on_task as one of a run of reflections.
reflect_in_run(c) ==
    /\ nops < MaxReflects
    /\ LET lesson == extract_lesson_from_task(c[1], c[2], nops + 1)
           added == add_lesson(lessons, lesson)
           curated == curate_playbook(added) IN
         /\ pre' = added
         /\ lessons' = curated
         /\ \E w \in {"ok", "open_failed", "write_failed"} :
              /\ disk' = CASE w = "ok" -> save_playbook(curated, nops + 1)
                           [] w = "open_failed" -> disk
                           [] OTHER -> CorruptFile
              /\ saved' = (w = "ok")
    /\ last' = "reflect"
    /\ nops' = nops + 1
    /\ UNCHANGED <<mainVars, hbVars, thVars, restVars, subject, query, out,
                   loaded>>

InitReflect ==
    /\ Constructed
    /\ bd = [id \in TaskIds |-> "open"]
    /\ mpc = "run"
    /\ hb_running = FALSE
    /\ disk = AbsentFile
    /\ lessons = load_playbook(disk)
    /\ last = "init"
    /\ pre = <<>>
    /\ query = <<>>
    /\ out = <<>>
    /\ loaded = NotLoaded
    /\ saved = FALSE
    /\ nops = 0
    /\ subject = None
    /\ RestIdle

NextReflect == \E c \in RunCalls : reflect_in_run(c)

SpecReflect == InitReflect /\ [][NextReflect]_vars

\* --------------------------- SpecRetrieve: retrievals and their results
\* Mutant of asdict: the stored objects themselves are handed out.
asdict_Shared(n) == [i \in 1..n |-> "lesson"]

\* Lesson.to_dict on n lessons: asdict builds a new dictionary for each, and
\* the values of a lesson are strings and a float.
asdict(n) == [i \in 1..n |-> "dict"]

\* get_relevant_lessons(phase, task_description, max_lessons)
get_lessons(q, k) ==
    /\ nops < MaxOps
    /\ query' = <<q[1], q[2], k>>
    /\ out' = get_relevant_lessons(lessons, q[1], q[2], k)
    /\ outObj' = asdict(Len(out'))
    /\ last' = "retrieve"
    /\ nops' = nops + 1
    /\ UNCHANGED <<mainVars, hbVars, thVars, retry, plan, ag, broker, hist,
                   subject,
                   lessons, disk, pre, loaded, saved>>

\* The values the caller of get_relevant_lessons stores in an entry.
Changed(f) == IF f = "relevance_score" THEN 0 ELSE <<"changed">>

\* The caller assigns to a key of an entry it was returned: the object it
\* was handed changes, and with it the playbook when that object is a
\* stored lesson.
caller_assigns(i, f) ==
    /\ nops < MaxOps
    /\ i \in 1..Len(out)
    /\ out[i][f] # Changed(f)
    /\ out' = [out EXCEPT ![i][f] = Changed(f)]
    /\ lessons' =
         IF outObj[i] = "lesson"
           THEN [j \in 1..Len(lessons) |->
                   IF lessons[j].lesson_id = out[i].lesson_id
                     THEN [lessons[j] EXCEPT ![f] = Changed(f)]
                     ELSE lessons[j]]
           ELSE lessons
    /\ last' = "assign"
    /\ nops' = nops + 1
    /\ UNCHANGED <<mainVars, hbVars, thVars, retry, plan, ag, broker, hist,
                   subject,
                   outObj, disk, pre, query, loaded, saved>>

InitRetrieve == InitACE

NextRetrieve ==
    \/ \E q \in Queries, k \in (0 - 1)..MaxK : get_lessons(q, k)
    \/ \E i \in 1..MaxK, f \in {"relevance_score", "learned"} :
         caller_assigns(i, f)

SpecRetrieve == InitRetrieve /\ [][NextRetrieve]_vars

\* ------------------------------- SpecAdd: reflections on several tasks
MaxAdds == 3

\* The calls of the run: tasks of one phase whose titles share words, two of
\* them with the same title, one whose title puts it into another category,
\* and a task of another phase.
AddCalls ==
    ReflectCalls
      \cup { <<[id |-> "t4", phase |-> "impl",
               title |-> <<"user", "login", "form", "page">>], "success">>,
             <<[id |-> "t5", phase |-> "impl",
               title |-> <<"user", "login", "form", "tests">>], "success">> }

\* reflect_on_task(task, ...) on a playbook that holds what the calls before
\* it left.
reflect_on(c) ==
    /\ nops < MaxAdds
    /\ LET lesson == extract_lesson_from_task(c[1], c[2], nops + 1)
           added == add_lesson(lessons, lesson)
           curated == curate_playbook(added) IN
         /\ pre' = added
         /\ lessons' = curated
         /\ \E w \in {"ok", "open_failed", "write_failed"} :
              /\ disk' = CASE w = "ok" -> save_playbook(curated, nops + 1)
                           [] w = "open_failed" -> disk
                           [] OTHER -> CorruptFile
              /\ saved' = (w = "ok")
    /\ subject' = c[1]
    /\ last' = "reflect"
    /\ nops' = nops + 1
    /\ UNCHANGED <<mainVars, hbVars, thVars, restVars, query, out, loaded>>

InitAdd == InitReflect

NextAdd == \E c \in AddCalls : reflect_on(c)

SpecAdd == InitAdd /\ [][NextAdd]_vars

\* ------------------------------ SpecCategorize: one task, recorded and asked
\* The phases and the texts (title, description) of the tasks.
TaskPhases ==
    {"impl", "testing", "implementation", "planning", "refactoring", "design"}

TaskTexts ==
    { <<"login">>, <<"Fix", "bug">>, <<"add", "login">>,
      <<"implement", "login">>, <<"write", "tests">>, <<"design", "login">>,
      <<"refactor", "code">>, <<"plan", "login">> }

Tasks ==
    {[id |-> "t1", phase |-> p, title |-> x, description |-> y] :
       p \in TaskPhases, x \in TaskTexts, y \in TaskTexts}

\* max_lessons of get_relevant_lessons when the caller passes none.
DefaultK == 5

\* _execute_task: playbook.get_relevant_lessons(task.phase, task.description)
lessons_for_task == retrieve(<<subject.phase, subject.description>>, DefaultK)

\* _execute_task: playbook.reflect_on_task(task, ..., "success") or
\* playbook.reflect_on_task(task, "", f"error: {e}")
reflect_for_task ==
    \E outcome \in {"success"} \cup ErrorOutcomes :
      reflect_on_task(<<subject, outcome>>)

\* A playbook without playbook.json and a task.
InitCategorize ==
    /\ Constructed
    /\ bd = [id \in TaskIds |-> "open"]
    /\ mpc = "run"
    /\ hb_running = FALSE
    /\ disk = AbsentFile
    /\ lessons = load_playbook(disk)
    /\ last = "init"
    /\ pre = <<>>
    /\ query = <<>>
    /\ out = <<>>
    /\ loaded = NotLoaded
    /\ saved = FALSE
    /\ nops = 0
    /\ subject \in Tasks
    /\ RestIdle

NextCategorize ==
    \/ lessons_for_task
    \/ reflect_for_task

SpecCategorize == InitCategorize /\ [][NextCategorize]_vars

\* ------------------------------------ SpecRetry: LLMClient._retry_with_backoff
MaxRetries == 3

\* What a call of func does: it returns a result or raises an Exception.
FuncOutcomes ==
    {[ok |-> TRUE, v |-> r] : r \in {"r1", "r2"}}
      \cup {[ok |-> FALSE, v |-> e] : e \in {"e1", "e2", "e3"}}

\* 2 ** attempt
RECURSIVE Pow2(_)
Pow2(n) == IF n = 0 THEN 1 ELSE 2 * Pow2(n - 1)

\* Mutant of r_call: a failed call is never the last one.
r_call_NeverRaises ==
    /\ retry.pc = "for"
    /\ retry.attempt < retry.max_retries
    /\ \E o \in FuncOutcomes :
         retry' = [retry EXCEPT
                     !.calls = Append(@, o),
                     !.out = IF o.ok THEN <<"return", o.v>> ELSE @,
                     !.pc = IF o.ok THEN "done" ELSE "except"]
    /\ UNCHANGED <<mainVars, hbVars, thVars, aceVars, plan, outObj, ag,
                   broker, hist>>

\* One round of the for loop: `return func()`, and in the except clause the
\* test attempt == max_retries - 1 and the bare raise.
r_call ==
    /\ retry.pc = "for"
    /\ retry.attempt < retry.max_retries
    /\ \E o \in FuncOutcomes :
         retry' = [retry EXCEPT
                     !.calls = Append(@, o),
                     !.out = IF o.ok THEN <<"return", o.v>>
                             ELSE IF retry.attempt = retry.max_retries - 1
                               THEN <<"raise", o.v>>
                             ELSE @,
                     !.pc = IF o.ok \/ retry.attempt = retry.max_retries - 1
                              THEN "done" ELSE "except"]
    /\ UNCHANGED <<mainVars, hbVars, thVars, aceVars, plan, outObj, ag,
                   broker, hist>>

\* The except clause of a call that was not the last: wait_time = 2 **
\* attempt, time.sleep(wait_time), and the next round.
r_sleep ==
    /\ retry.pc = "except"
    /\ retry' = [retry EXCEPT
                   !.waits = Append(@, Pow2(retry.attempt)),
                   !.attempt = @ + 1,
                   !.pc = "for"]
    /\ UNCHANGED <<mainVars, hbVars, thVars, aceVars, plan, outObj, ag,
                   broker, hist>>

\* range(max_retries) is used up without a return or a raise: the function
\* falls off its end and returns None.
r_end ==
    /\ retry.pc = "for"
    /\ retry.attempt >= retry.max_retries
    /\ retry' = [retry EXCEPT !.out = <<"return", None>>, !.pc = "done"]
    /\ UNCHANGED <<mainVars, hbVars, thVars, aceVars, plan, outObj, ag,
                   broker, hist>>

\* _retry_with_backoff(func, max_retries) has been called.
InitRetry ==
    /\ Constructed
    /\ FreshStore
    /\ bd = [id \in TaskIds |-> "open"]
    /\ mpc = "run"
    /\ hb_running = FALSE
    /\ plan = <<>>
    /\ outObj = <<>>
    /\ ag = <<>>
    /\ broker = <<>>
    /\ hist = <<>>
    /\ retry \in {[NoRetry EXCEPT !.max_retries = m, !.pc = "for"] :
                    m \in 0..MaxRetries}

NextRetry ==
    \/ r_call
    \/ r_sleep
    \/ r_end

\* func returns or raises and time.sleep returns, so a step that can be
\* taken is taken.
SpecRetry == InitRetry /\ [][NextRetry]_vars /\ WF_vars(NextRetry)

\* ------------------------------- SpecPlan: _execute_action_plan on one plan
MaxActions == 3

\* Entries of an "actions" list, with the "content" of the writes: writes of
\* two texts, deletes, a read and an entry of an unknown type on leasable
\* paths, a write on a path that is never leased, a write without "file",
\* and an entry that is no object.
PlanEntries ==
    [type : {"write"}, file : {"a.py", "b.py"}, content : {"x", "y"}]
      \cup [type : {"delete"}, file : {"a.py", "b.py"}, content : {""}]
      \cup [type : {"read", "chmod"}, file : {"a.py"}, content : {""}]
      \cup [type : {"write"}, file : {"x.py", None}, content : {"x"}]
      \cup {[type |-> "nondict", file |-> None, content |-> ""]}

ParsedPlans == SeqsUpTo(PlanEntries, MaxActions)

\* The leases parameter: the leases granted for the files of the task.
LeaseLists ==
    {<<[lease_id |-> LeaseId(1, "a.py"), file_path |-> "a.py"]>>,
     <<[lease_id |-> LeaseId(1, "a.py"), file_path |-> "a.py"],
       [lease_id |-> LeaseId(1, "b.py"), file_path |-> "b.py"]>>}

\* _execute_action_plan(llm_response, leases) up to the for statement: the
\* JSON object of the response is parsed and its "actions" list taken.
ep_parse ==
    /\ mpc = "ep_parse"
    /\ \E ls \in LeaseLists, as \in ParsedPlans :
         /\ leases' = ls
         /\ plan' = as
    /\ ai' = 1
    /\ mpc' = "ep_for"
    /\ UNCHANGED <<running, iter, bd, task, current_task, files_to_lease,
                   active_leases, ri, result, planLen, failed, fsRest, exc,
                   fs, hbVars, hb_running, ev, histVars, observed, sig_at,
                   thVars, aceVars, retry, outObj, ag, broker,
                   hist>>

\* One round of `for action in actions`; an exception of the round leaves
\* the loop for the handler of the try statement around it, which logs.
ep_action ==
    /\ mpc = "ep_for"
    /\ ai <= Len(plan)
    /\ \E io \in BOOLEAN :
         IF Raises(plan[ai], fs, leases, io)
           THEN /\ failed' = IF plan[ai].type = "nondict"
                               THEN "AttributeError" ELSE "OSError"
                /\ mpc' = "ep_done"
                /\ UNCHANGED <<fs, ai>>
           ELSE /\ fs' = Effect(plan[ai], fs, leases)
                /\ ai' = ai + 1
                /\ UNCHANGED <<failed, mpc>>
    /\ UNCHANGED <<running, iter, bd, task, current_task, files_to_lease,
                   leases, active_leases, ri, result, planLen, fsRest, exc,
                   hbVars, hb_running, ev, histVars, observed, sig_at,
                   thVars, aceVars, restVars>>

\* The list is used up: _execute_action_plan returns.
ep_return ==
    /\ mpc = "ep_for"
    /\ ai > Len(plan)
    /\ mpc' = "ep_done"
    /\ UNCHANGED <<running, iter, bd, taskVars, fs, hbVars, hb_running, ev,
                   histVars, observed, sig_at, thVars, aceVars, restVars>>

InitPlan ==
    /\ Constructed
    /\ FreshStore
    /\ RestIdle
    /\ bd = [id \in TaskIds |-> "open"]
    /\ mpc = "ep_parse"
    /\ hb_running = FALSE

NextPlan ==
    \/ ep_parse
    \/ ep_action
    \/ ep_return

SpecPlan == InitPlan /\ [][NextPlan]_vars

\* --------------------- SpecLease: two agents, one task source, one broker
MaxRuns == 2
MaxPlanned == 1

Agents == {"a1", "a2"}

\* An orchestrator between two iterate() calls.
IdleAgent ==
    [pc |-> "idle", task |-> None, files_to_lease |-> <<>>, leases |-> <<>>,
     active_leases |-> <<>>, ri |-> 1, n |-> 0, runs |-> 0, mut |-> None,
     touched |-> {}, asked |-> {}]

\* The answer of `bd list --json --status open`: the open tasks in the
\* order of the source.
OpenList(st) ==
    SelectSeq([i \in 1..Len(TaskList) |-> TaskList[i].id],
              LAMBDA id : st[id] = "open")

leaseRest ==
    <<running, mpc, iter, taskVars, fs, hb_running, ev, histVars, observed,
      sig_at, hbVars, thVars, aceVars, retry, plan, outObj>>

\* Mutant of lz_poll: the task whose execution has just failed is passed
\* over.
lz_poll_SkipsFailed(a) ==
    LET st == [id \in TaskIds |->
                 IF hist # <<>> /\ id = hist.prev THEN "skipped"
                 ELSE bd[id]] IN
      /\ ag[a].pc = "idle"
      /\ ag[a].runs < MaxRuns
      /\ poll_for_task(st) # None
      /\ ag' = [ag EXCEPT ![a] = [@ EXCEPT !.pc = "polled",
                                           !.task = poll_for_task(st),
                                           !.runs = @ + 1,
                                           !.mut = None]]
      /\ UNCHANGED <<bd, broker, leaseRest>>

\* iterate() of agent a: _poll_for_task returns a task, the first of the
\* answer whose phase is configured. (A poll without a task changes nothing
\* the orchestrator keeps.)
lz_poll(a) ==
    LET st == bd IN
      /\ ag[a].pc = "idle"
      /\ ag[a].runs < MaxRuns
      /\ poll_for_task(st) # None
      /\ ag' = [ag EXCEPT ![a] = [@ EXCEPT !.pc = "polled",
                                           !.task = poll_for_task(st),
                                           !.runs = @ + 1,
                                           !.mut = None]]
      /\ UNCHANGED <<bd, broker, leaseRest>>

\* _execute_task of agent a up to the first reservation request: the status
\* update to in_progress and _identify_files_for_task, whose list(set(...))
\* fixes no order and whose re.findall raises on a description that is no
\* string.
lz_start(a) ==
    /\ ag[a].pc = "polled"
    /\ \E ok \in BOOLEAN :
         bd' = update_task_status(ag[a].task, "in_progress", ok)
    /\ LET d == TaskList[TaskOf(ag[a].task)].description IN
       \E order \in Perms(d.paths) :
         ag' = [ag EXCEPT ![a] = [@ EXCEPT !.pc = IF ~d.isStr THEN "except"
                                                 ELSE IF order = <<>>
                                                   THEN "apply"
                                                 ELSE "lease",
                                           !.files_to_lease = order,
                                           !.leases = <<>>,
                                           !.n = 0,
                                           !.touched = {},
                                           !.asked = {}]]
    /\ UNCHANGED <<broker, leaseRest>>

\* Answers of the broker to a reservation request of agent a for path f, as
\* the claim supposes it: granted only while the path has no unreleased
\* lease; the request or its answer can be lost.
LeaseAnswers(f) ==
    IF broker[f] = None THEN {"granted", "granted_lost", "lost"}
    ELSE {"denied", "lost"}

\* Mutant of lz_lease: an answer other than 200 is recorded as a lease too.
lz_lease_RecordsDenied(a) ==
    /\ ag[a].pc = "lease"
    /\ LET f == Head(ag[a].files_to_lease)
           l == [lease_id |-> LeaseId(ag[a].runs, f), file_path |-> f]
           rest == Tail(ag[a].files_to_lease) IN
         \E ans \in LeaseAnswers(f) :
           /\ broker' = IF ans \in {"granted", "granted_lost"}
                          THEN [broker EXCEPT ![f] = a] ELSE broker
           /\ ag' = [ag EXCEPT ![a] =
                [@ EXCEPT !.files_to_lease = rest,
                          !.leases = IF ans \in {"granted", "denied"}
                                       THEN Append(@, l) ELSE @,
                          !.active_leases = IF ans \in {"granted", "denied"}
                                              THEN Append(@, l) ELSE @,
                          !.pc = IF rest = <<>> THEN "apply" ELSE "lease"]]
    /\ UNCHANGED <<bd, leaseRest>>

\* _request_file_leases of agent a, one candidate: a 200 answer is recorded
\* in the local list and in active_leases; any other answer and an exception
\* of the request are logged.
lz_lease(a) ==
    /\ ag[a].pc = "lease"
    /\ LET f == Head(ag[a].files_to_lease)
           l == [lease_id |-> LeaseId(ag[a].runs, f), file_path |-> f]
           rest == Tail(ag[a].files_to_lease) IN
         \E ans \in LeaseAnswers(f) :
           /\ broker' = IF ans \in {"granted", "granted_lost"}
                          THEN [broker EXCEPT ![f] = a] ELSE broker
           /\ ag' = [ag EXCEPT ![a] =
                [@ EXCEPT !.files_to_lease = rest,
                          !.leases = IF ans = "granted"
                                       THEN Append(@, l) ELSE @,
                          !.active_leases = IF ans = "granted"
                                              THEN Append(@, l) ELSE @,
                          !.pc = IF rest = <<>> THEN "apply" ELSE "lease"]]
    /\ UNCHANGED <<bd, leaseRest>>

\* _execute_action_plan of agent a, one entry of the given type on path p:
\* skipped unless p is the file_path of a lease of this execution; a write
\* or a delete of a leased path reaches the file.
lz_action(a, p, type) ==
    /\ ag[a].pc = "apply"
    /\ ag[a].n < MaxPlanned
    /\ LET does == /\ Allowed([type |-> type, file |-> p], ag[a].leases)
                   /\ type \in {"write", "delete"} IN
         ag' = [ag EXCEPT ![a] =
                  [@ EXCEPT !.n = @ + 1,
                            !.mut = IF does THEN p ELSE None,
                            !.touched = IF does THEN @ \cup {p} ELSE @]]
    /\ UNCHANGED <<bd, broker, leaseRest>>

\* _execute_task of agent a after the plan: the update to complete, or to
\* open after an exception; _release_all_leases begins.
lz_update(a, status, ok) ==
    /\ \/ ag[a].pc = "apply"
       \/ ag[a].pc = "except" /\ status = "open"
    /\ bd' = update_task_status(ag[a].task, status, ok)
    /\ ag' = [ag EXCEPT ![a] = [@ EXCEPT !.pc = "release", !.ri = 1,
                                         !.mut = None]]
    /\ UNCHANGED <<broker, leaseRest>>

\* _release_all_leases of agent a, one lease: the release request is posted;
\* the broker releases the lease when the request reaches it.
lz_release(a) ==
    /\ ag[a].pc = "release"
    /\ ag[a].ri <= Len(ag[a].active_leases)
    /\ LET f == ag[a].active_leases[ag[a].ri].file_path IN
         /\ \E arrives \in BOOLEAN :
              broker' = IF arrives /\ broker[f] = a
                          THEN [broker EXCEPT ![f] = None] ELSE broker
         /\ ag' = [ag EXCEPT ![a] = [@ EXCEPT !.ri = @ + 1,
                                              !.asked = @ \cup {f}]]
    /\ UNCHANGED <<bd, leaseRest>>

\* _release_all_leases of agent a: active_leases.clear(); _execute_task and
\* iterate() return.
lz_return(a) ==
    /\ ag[a].pc = "release"
    /\ ag[a].ri > Len(ag[a].active_leases)
    /\ ag' = [ag EXCEPT ![a] = [@ EXCEPT !.pc = "idle",
                                         !.active_leases = <<>>,
                                         !.leases = <<>>,
                                         !.ri = 1,
                                         !.n = 0,
                                         !.touched = {},
                                         !.asked = {}]]
    /\ UNCHANGED <<bd, broker, leaseRest>>

\* Two constructed orchestrators of phase impl on one task source whose
\* open task of that phase names a.py and b.py, and a broker without leases.
InitLease ==
    /\ Constructed
    /\ FreshStore
    /\ retry = NoRetry
    /\ plan = <<>>
    /\ outObj = <<>>
    /\ bd = [id \in TaskIds |-> IF id = "t2" THEN "complete" ELSE "open"]
    /\ mpc = "run"
    /\ hb_running = FALSE
    /\ hist = <<>>
    /\ ag = [a \in Agents |-> IdleAgent]
    /\ broker = [p \in Paths |-> None]

NextLease ==
    \/ \E a \in Agents : lz_poll(a) /\ UNCHANGED hist
    \/ \E a \in Agents : lz_start(a) /\ UNCHANGED hist
    \/ \E a \in Agents : lz_lease(a) /\ UNCHANGED hist
    \/ \E a \in Agents, p \in Paths, type \in {"read", "write", "delete"} :
         lz_action(a, p, type) /\ UNCHANGED hist
    \/ \E a \in Agents, status \in {"complete", "open"}, ok \in BOOLEAN :
         lz_update(a, status, ok) /\ UNCHANGED hist
    \/ \E a \in Agents : lz_release(a) /\ UNCHANGED hist
    \/ \E a \in Agents : lz_return(a) /\ UNCHANGED hist

SpecLease == InitLease /\ [][NextLease]_vars

\* ------------- SpecAgain: one agent's iterations on a source others change
\* The agent whose iterations are followed.
Solo == "a1"

\* Nothing polled or executed yet.
NoHist ==
    [listed |-> <<>>, before |-> <<>>, prev |-> None, executed |-> {},
     steady |-> TRUE]

\* iterate(): the poll; the answers of this poll and of the one before, the
\* task selected, and whether every answer so far was the same.
sa_poll ==
    /\ lz_poll(Solo)
    /\ hist' = [hist EXCEPT
                  !.before = hist.listed,
                  !.listed = OpenList(bd),
                  !.executed = @ \cup {ag'[Solo].task},
                  !.steady = /\ @
                             /\ hist.listed \in {<<>>, OpenList(bd)}]

sa_start == lz_start(Solo) /\ UNCHANGED hist

sa_lease == lz_lease(Solo) /\ UNCHANGED hist

sa_action(p, type) == lz_action(Solo, p, type) /\ UNCHANGED hist

\* The status update that ends the attempt: prev is the task when the
\* execution failed and its update to open succeeded.
sa_update(status, ok) ==
    /\ lz_update(Solo, status, ok)
    /\ hist' = [hist EXCEPT
                  !.prev = IF status = "open" /\ ok
                             THEN ag[Solo].task ELSE None,
                  !.steady = @ /\ status = "open" /\ ok]

sa_release == lz_release(Solo) /\ UNCHANGED hist

sa_return == lz_return(Solo) /\ UNCHANGED hist

\* Another user of the task source sets the status of a task.
src_update(id, status) ==
    /\ bd[id] # status
    /\ bd' = [bd EXCEPT ![id] = status]
    /\ UNCHANGED <<ag, broker, hist, leaseRest>>

InitAgain ==
    /\ Constructed
    /\ FreshStore
    /\ retry = NoRetry
    /\ plan = <<>>
    /\ outObj = <<>>
    /\ bd = [id \in TaskIds |-> "open"]
    /\ mpc = "run"
    /\ hb_running = FALSE
    /\ hist = NoHist
    /\ ag = [a \in Agents |-> IdleAgent]
    /\ broker = [p \in Paths |-> None]

NextAgain ==
    \/ sa_poll
    \/ sa_start
    \/ sa_lease
    \/ \E p \in Paths, type \in {"read", "write", "delete"} : sa_action(p, type)
    \/ \E status \in {"complete", "open"}, ok \in BOOLEAN :
         sa_update(status, ok)
    \/ sa_release
    \/ sa_return
    \/ \E id \in TaskIds, status \in {"open", "complete"} :
         src_update(id, status)

SpecAgain == InitAgain /\ [][NextAgain]_vars

\* ------------------------------------------------------ claims under Spec
\* iterate() has returned from _execute_task.
ExecEnded == mpc = "sleep" /\ task # None

StatusUpdates(e) ==
    SelectSeq(e, LAMBDA x : x \in {"in_progress", "complete", "open"})

Reflects(e) ==
    SelectSeq(e, LAMBDA x : x \in {"reflect_success", "reflect_error"})

Count(e, x) == Cardinality({i \in 1..Len(e) : e[i] = x})

IteratePcs == TaskPcs \cup {"poll"}

ShutdownPcs == {"shutdown", "cleanup", "exited"}

\* C1: a step changes the content or the existence of a path only while the
\* action plan is applied and only when that exact path is the file_path of
\* a lease acquired for the current task; actions on other paths, or without
\* a path, change nothing.
C1_NoMutationOutsideLeases ==
    [][\A p \in Paths :
         fs'[p] # fs[p] =>
           /\ mpc = "t_apply"
           /\ p \in leased_files(leases)
           /\ LeaseId(iter, p) \in acquired]_vars

C1_Witness ==
    /\ mpc = "t_complete"
    /\ skipped # {}
    /\ touched # {}
    /\ touched \cap skipped = {}

\* C2: when _execute_task ends, whatever failed on the way, active_leases is
\* empty, current_task is None and a release request was posted for every
\* lease acquired.
C2_FinalizationReleasesAll ==
    ExecEnded =>
      /\ active_leases = <<>>
      /\ current_task = None
      /\ acquired \subseteq relReq

C2_Witness ==
    /\ ExecEnded
    /\ exc # None
    /\ Cardinality(acquired) = 1
    /\ bd[task] = "in_progress"

\* C3: when llm_client.complete raised, the status updates of the task are
\* in_progress then open, reflect_on_task ran once with an error outcome, no
\* action was applied, and the leases were released and idle reported.
C3_LlmFailureIsTaskFatal ==
    (ExecEnded /\ exc = "LLMError") =>
      /\ StatusUpdates(ev) = <<"in_progress", "open">>
      /\ Reflects(ev) = <<"reflect_error">>
      /\ Count(ev, "apply") = 0
      /\ touched = {}
      /\ active_leases = <<>>
      /\ acquired \subseteq relReq
      /\ ev[Len(ev)] = "idle"
      /\ hb_status = "idle"

C3_Witness ==
    /\ ExecEnded
    /\ exc = "LLMError"
    /\ Cardinality(acquired) = 2

\* C4: an exception raised while the plan is applied makes the terminal
\* status update open and the lesson an error lesson.
C4_ExecutionExceptionIsTaskFatal ==
    (ExecEnded /\ failed # None) =>
      /\ StatusUpdates(ev) = <<"in_progress", "open">>
      /\ Reflects(ev) = <<"reflect_error">>

\* C5: when an action of the plan fails, the later actions are still applied:
\* after the plan the file system is what the remaining entries make of it.
C5_LaterActionsStillApplied ==
    (mpc = "t_complete" /\ failed = "OSError") => fs = fsRest

\* C6: every execution issues in_progress first, then one terminal update,
\* complete exactly when no exception reached the task boundary and open
\* otherwise, and one reflect_on_task, with outcome success exactly when the
\* terminal update was complete.
C6_OneTerminalUpdate ==
    ExecEnded =>
      LET su == StatusUpdates(ev)
          rf == Reflects(ev) IN
        /\ ev[2] = "in_progress"
        /\ Len(su) = 2
        /\ su[1] = "in_progress"
        /\ su[2] = (IF exc = None THEN "complete" ELSE "open")
        /\ Len(rf) = 1
        /\ (rf[1] = "reflect_success") <=> (su[2] = "complete")

C6_Witness ==
    /\ ExecEnded
    /\ exc = None
    /\ failed = "OSError"

\* Place of an event in the order the control flow prescribes.
Rank(x) ==
    CASE x = "poll" -> 1
      [] x = "in_progress" -> 2
      [] x = "lease_req" -> 3
      [] x = "retrieve" -> 4
      [] x = "llm" -> 5
      [] x = "apply" -> 6
      [] x = "complete" -> 7
      [] x = "reflect_success" -> 8
      [] x = "release_req" -> 9
      [] x = "idle" -> 10
      [] OTHER -> 0

\* C7: in a successful execution the events occur in the order poll,
\* in_progress, lease requests, lesson retrieval, generation call, action
\* application, terminal update, lesson record, release requests, idle
\* report, each of the single ones exactly once.
C7_EventOrder ==
    (ExecEnded /\ exc = None) =>
      LET e == SelectSeq(ev, LAMBDA x : x # "working") IN
        /\ \A i, j \in 1..Len(e) : i < j => Rank(e[i]) <= Rank(e[j])
        /\ \A x \in {"poll", "in_progress", "retrieve", "llm", "apply",
                     "complete", "reflect_success", "idle"} : Count(e, x) = 1
        /\ Count(e, "lease_req") =
             Cardinality(TaskList[TaskOf(task)].description.paths)
        /\ Count(e, "release_req") = Cardinality(acquired)
        /\ Count(e, "open") = 0

C7_Witness ==
    /\ ExecEnded
    /\ exc = None
    /\ Cardinality(acquired) = 2
    /\ touched = {"a.py", "b.py"}

\* C9: the signal only clears the running flag; shutdown() begins only after
\* a task in flight got its terminal status update and its leases were
\* released; once the flag was read as false no iterate() call starts.
C9_GracefulShutdown ==
    /\ [](mpc \in ShutdownPcs =>
            /\ ~running
            /\ current_task = None
            /\ active_leases = <<>>
            /\ task # None =>
                 /\ Len(StatusUpdates(ev)) = 2
                 /\ acquired \subseteq relReq)
    /\ [][/\ (running /\ ~running') =>
               UNCHANGED <<mpc, iter, bd, taskVars, fs, hbVars, hb_running,
                           ev, histVars, observed, thVars, aceVars, retry>>
          /\ observed => (iter' = iter /\ mpc' \notin IteratePcs)]_vars

C9_Witness ==
    /\ mpc = "exited"
    /\ sig_at = "in_task"
    /\ task # None
    /\ acquired # {}

SamePhase(a, b) == Lower(a) = Lower(b)

\* Task i of the answer is open and of a configured phase.
Eligible(i) ==
    /\ bd[TaskList[i].id] = "open"
    /\ \E k \in 1..Len(phases) : SamePhase(TaskList[i].phase, phases[k])

\* C11: the task iterate() goes on to execute is the first open task, in
\* the order of the answer, whose phase is a configured phase without regard
\* to case; an iterate() call whose poll returned no task (no match, or the
\* query failed) consists of the poll and the idle report: no task is
\* executed, no status update, lease request or release request is issued.
C11_FirstMatchOrIdle ==
    /\ mpc \in TaskPcs => task # None
    /\ mpc = "t_start" =>
         LET i == TaskOf(task) IN
           /\ Eligible(i)
           /\ \A j \in 1..(i - 1) : ~Eligible(j)
    /\ (mpc = "sleep" /\ task = None) =>
         /\ ev = <<"poll", "idle">>
         /\ hb_status = "idle"
         /\ current_task = None
         /\ acquired = {}
         /\ relReq = {}
         /\ touched = {}

\* The second poll finds no eligible task: t1 and t2 are closed, t0 is open
\* and of another phase.
C11_Witness ==
    /\ mpc = "sleep"
    /\ task = None
    /\ iter = 2
    /\ bd["t1"] = "complete"
    /\ \A i \in 1..Len(TaskList) : ~Eligible(i)
    /\ ev = <<"poll", "idle">>

\* C12: the in_progress update is attempted once per execution, whether it
\* succeeded or not; its failure does not reach the task boundary: unless
\* the description could not be scanned, a lease is requested for every
\* candidate and the generation backend is called once, and in every case
\* one terminal update follows - also when the source still shows the task
\* open because the in_progress update failed.
C12_InProgressBestEffort ==
    /\ (mpc \in TaskPcs \ {"t_start"} \/ ExecEnded) =>
         /\ Count(ev, "in_progress") = 1
         /\ ev[2] = "in_progress"
    /\ exc # None => Count(ev, "working") = 1
    /\ (mpc \in {"t_complete", "t_except"} /\ exc # "TypeError") =>
         /\ Count(ev, "lease_req") =
              Cardinality(TaskList[TaskOf(task)].description.paths)
         /\ Count(ev, "llm") = 1
    /\ ExecEnded => Len(StatusUpdates(ev)) = 2

\* Both updates of a successful execution failed: the source still shows
\* the task open, and two leases were granted and the plan applied.
C12_Witness ==
    /\ ExecEnded
    /\ exc = None
    /\ bd[task] = "open"
    /\ Cardinality(acquired) = 2
    /\ touched # {}
    /\ StatusUpdates(ev) = <<"in_progress", "complete">>

\* C13: every step of _request_file_leases posts one reservation request,
\* for the next candidate in order, and either appends a lease of exactly
\* that path to the local list and to active_leases or leaves both as they
\* are; the candidate is not requested again and no exception reaches the
\* task boundary. So one request is posted per candidate, the leases come in
\* request order, and while the task runs the paths the executor accepts are
\* the paths of active_leases.
C13_LeasesAreTheGrantedOnes ==
    /\ [](mpc \in TaskPcs =>
            /\ leases = active_leases
            /\ \A i, j \in 1..Len(leases) :
                 leases[i].file_path = leases[j].file_path => i = j
            /\ {leases[i].lease_id : i \in 1..Len(leases)} = acquired)
    /\ [](mpc \in {"t_retrieve", "t_llm", "t_parse", "t_apply"} =>
            /\ files_to_lease = <<>>
            /\ Count(ev, "lease_req") =
                 Cardinality(TaskList[TaskOf(task)].description.paths)
            /\ leased_files(leases) \subseteq
                 TaskList[TaskOf(task)].description.paths)
    /\ [][(mpc = "t_lease" /\ ev' # ev) =>
            LET f == Head(files_to_lease)
                l == [lease_id |-> LeaseId(iter, f), file_path |-> f] IN
              /\ ev' = Append(ev, "lease_req")
              /\ files_to_lease' = Tail(files_to_lease)
              /\ \/ leases' = leases /\ active_leases' = active_leases
                 \/ /\ leases' = Append(leases, l)
                    /\ active_leases' = Append(active_leases, l)
              /\ exc' = None
              /\ mpc' \in {"t_lease", "t_retrieve"}]_vars

\* Of two candidates one was granted and the other was not.
C13_Witness ==
    /\ mpc = "t_retrieve"
    /\ Count(ev, "lease_req") = 2
    /\ Len(leases) = 1
    /\ leased_files(active_leases) = {"b.py"}
    /\ exc = None

\* C14: while _release_all_leases runs, one release request has been posted
\* for each lease before the index and none for the others, whatever each
\* request did; when it has returned active_leases is empty and the requests
\* posted are one per lease that was held; the call that follows it at
\* shutdown finds the list empty and posts nothing.
C14_ReleaseOncePerLease ==
    /\ mpc = "t_release" =>
         /\ ri \in 1..(Len(active_leases) + 1)
         /\ Count(ev, "release_req") = ri - 1
         /\ relReq = {active_leases[i].lease_id : i \in 1..(ri - 1)}
    /\ ExecEnded =>
         /\ active_leases = <<>>
         /\ Count(ev, "release_req") = Cardinality(acquired)
         /\ relReq = acquired
    /\ mpc = "exited" =>
         /\ active_leases = <<>>
         /\ Count(ev, "release_req") = Cardinality(acquired)
         /\ relReq = acquired

\* cleanup() has run after an execution that released two leases.
C14_Witness ==
    /\ mpc = "exited"
    /\ task # None
    /\ Cardinality(acquired) = 2
    /\ Count(ev, "release_req") = 2
    /\ active_leases = <<>>

\* C15: the loop over the actions is entered only with a parsed plan; an
\* execution whose generation output held no JSON object, or an unparsable
\* span, wrote and deleted nothing and refused nothing, no exception reached
\* the task boundary, its terminal update was complete and its lesson a
\* success lesson, and it was finalized: leases released, current_task
\* None, idle reported.
C15_NoPlanIsNotAFailure ==
    /\ mpc = "t_apply" => result = "plan"
    /\ (ExecEnded /\ result \in {"nojson", "badjson"}) =>
         /\ touched = {}
         /\ skipped = {}
         /\ failed = None
         /\ exc = None
         /\ StatusUpdates(ev) = <<"in_progress", "complete">>
         /\ Reflects(ev) = <<"reflect_success">>
         /\ active_leases = <<>>
         /\ current_task = None
         /\ relReq = acquired
         /\ ev[Len(ev)] = "idle"
         /\ hb_status = "idle"

\* An execution with an unparsable span, two leases held, marked complete.
C15_Witness ==
    /\ ExecEnded
    /\ result = "badjson"
    /\ Cardinality(acquired) = 2
    /\ bd[task] = "complete"

\* ---------------------------------------------------- claims under SpecHB
\* C8: every heartbeat payload carries a (status, current_task, error)
\* triple that one update_status call wrote, or the initial values.
C8_NoTornHeartbeat ==
    \/ payload = [status |-> None, current_task |-> None, error |-> None]
    \/ <<payload.status, payload.current_task, payload.error>> \in written

\* --------------------------------------------------- claims under SpecACE
\* The contexts of two lessons of one task_type, both with a word, share at
\* least 0.6 of their distinct lower-cased words.
OverlapAtLeastSixTenths(l1, l2) ==
    LET w1 == Words(l1.context)
        w2 == Words(l2.context) IN
      /\ l1.task_type = l2.task_type
      /\ w1 # {}
      /\ w2 # {}
      /\ 10 * Cardinality(w1 \cap w2) >= 6 * Cardinality(w1 \cup w2)

\* Number of places at which text a occurs in text b.
Occurrences(a, b) ==
    Cardinality({i \in 0..(Len(b) - Len(a)) : SubSeq(b, i + 1, i + Len(a)) = a})

\* C16: recording a lesson whose context shares at least 0.6 of the words
\* (0.6 included) with a stored lesson of the same task_type adds no lesson:
\* the two are one stored lesson, whose learned text holds the learned text
\* of each of them exactly once.
C16_MergeFromSixTenths ==
    [][(last' = "reflect" /\ nops' = nops + 1) =>
         /\ Len(pre') = Len(lessons) + 1 =>
              \A i \in 1..Len(lessons) :
                ~OverlapAtLeastSixTenths(lessons[i], pre'[Len(pre')])
         /\ Len(pre') = Len(lessons) =>
              \A i \in 1..Len(lessons) :
                pre'[i] # lessons[i] =>
                  /\ Occurrences(lessons[i].learned, pre'[i].learned) = 1
                  /\ \A c \in ReflectCalls :
                       LET new == extract_lesson_from_task(c[1], c[2], nops + 1)
                       IN pre' = add_lesson(lessons, new) =>
                            Occurrences(new.learned, pre'[i].learned) = 1]_vars

\* The last call ran a curation pass: _curate_playbook itself, or a
\* reflect_on_task, which curates what _add_lesson left.
Curated == last \in {"curate", "reflect"}

Ids(ls) == {ls[i].lesson_id : i \in 1..Len(ls)}

\* C17: after a curation pass the playbook holds at most max_lessons lessons,
\* in the order of non-increasing relevance_score, whatever the list was
\* that the pass received.
C17_CuratedIsBoundedAndSorted ==
    Curated =>
      /\ Len(lessons) <= max_lessons
      /\ \A i, j \in 1..Len(lessons) :
           i < j => lessons[i].relevance_score >= lessons[j].relevance_score

\* The pass received more than max_lessons lessons, not in order.
C17_Witness ==
    /\ last = "curate"
    /\ Len(pre) > max_lessons
    /\ pre[1].relevance_score < pre[2].relevance_score
    /\ Len(lessons) = max_lessons
    /\ lessons[1].relevance_score > lessons[2].relevance_score

\* C18: a curation pass over n lessons keeps min(n, max_lessons) of them,
\* each as it was but for its score, and no lesson it dropped had a higher
\* score than a lesson it kept.
C18_KeepsTheHighest ==
    Curated =>
      /\ Len(lessons) = Min(Len(pre), max_lessons)
      /\ Cardinality(Ids(lessons)) = Len(lessons)
      /\ \A i \in 1..Len(lessons) :
           \E j \in 1..Len(pre) :
             [lessons[i] EXCEPT !.relevance_score = 0]
               = [pre[j] EXCEPT !.relevance_score = 0]
      /\ \A j, k \in 1..Len(pre) :
           (pre[j].lesson_id \notin Ids(lessons)
              /\ pre[k].lesson_id \in Ids(lessons))
             => pre[j].relevance_score <= pre[k].relevance_score

\* Three lessons were received, the first of them was dropped and one that
\* tied with a kept lesson was kept.
C18_Witness ==
    /\ last = "curate"
    /\ Len(pre) = max_lessons + 1
    /\ Len(lessons) = max_lessons
    /\ pre[1].lesson_id \notin Ids(lessons)
    /\ lessons[1].relevance_score = lessons[2].relevance_score

\* The score the last query gives a lesson: the stored score, times 1.5
\* when the lesson's type is the category of the query, plus 0.1 for every
\* word of the description that is a word of the lesson's context.
QueryScore(l) ==
    (IF l.task_type = categorize_task_from_description(query[1], query[2])
       THEN (3 * l.relevance_score) \div 2 ELSE l.relevance_score)
      + (Unit \div 10) * Cardinality(Words(query[2]) \cap Words(l.context))

\* The place in the store of the lesson a returned dictionary was made of.
StorePlace(d) ==
    CHOOSE j \in 1..Len(lessons) : lessons[j].lesson_id = d["lesson_id"]

\* C19: a retrieval with k >= 0 returns min(k, number of stored lessons)
\* different stored lessons as dictionaries, in the order of non-increasing
\* score for the query, lessons of equal score in the order of the store,
\* and no stored lesson it left out has a higher score than one it returned.
C19_TopKByScore ==
    (last = "retrieve" /\ query[3] >= 0) =>
      /\ Len(out) = Min(query[3], Len(lessons))
      /\ \A i \in 1..Len(out) :
           /\ \E j \in 1..Len(lessons) :
                lessons[j].lesson_id = out[i]["lesson_id"]
           /\ out[i] = [f \in LessonFields |-> lessons[StorePlace(out[i])][f]]
      /\ \A i, j \in 1..Len(out) :
           i < j =>
             LET a == lessons[StorePlace(out[i])]
                 b == lessons[StorePlace(out[j])] IN
               /\ StorePlace(out[i]) # StorePlace(out[j])
               /\ QueryScore(a) >= QueryScore(b)
               /\ QueryScore(a) = QueryScore(b) =>
                    StorePlace(out[i]) < StorePlace(out[j])
      /\ \A m \in 1..Len(lessons), i \in 1..Len(out) :
           (\A n \in 1..Len(out) : StorePlace(out[n]) # m) =>
             QueryScore(lessons[m]) <= QueryScore(lessons[StorePlace(out[i])])

\* Two of three lessons were returned, the last of the store first.
C19_Witness ==
    /\ last = "retrieve"
    /\ query[3] = 2
    /\ Len(lessons) = 3
    /\ Len(out) = 2
    /\ out[1]["lesson_id"] = lessons[3].lesson_id
    /\ out[2]["lesson_id"] = lessons[1].lesson_id

Unloadable(d) ==
    \/ d.kind # "json"
    \/ \E i \in 1..Len(d.data[1].lessons) :
         DOMAIN d.data[1].lessons[i] # LessonFields

\* The store a playbook without lessons has after reflect_on_task(c) as its
\* operation number n.
FirstRecord(c, n) ==
    LET lesson == extract_lesson_from_task(c[1], c[2], n) IN
      <<[lesson EXCEPT !.relevance_score = (Unit * 99) \div 100]>>

MergedInto(i) ==
    /\ last' = "reflect"
    /\ Len(pre') = Len(lessons)
    /\ i \in 1..Len(lessons)
    /\ pre'[i] # lessons[i]

\* C22: on a store that started empty, every lesson has a score above 0 and
\* of 2.0 at most after every reflection; a reflection that merges raises
\* the score of the lesson it merges into by 0.1, to 2.0 at most, and then
\* the curation multiplies the score of every lesson by 0.99.
C22_ScoreStaysInRange ==
    /\ [](\A i \in 1..Len(lessons) :
            /\ lessons[i].relevance_score > 0
            /\ lessons[i].relevance_score <= 2 * Unit)
    /\ [][\A i \in 1..Len(lessons) :
            MergedInto(i) =>
              /\ pre'[i].relevance_score
                   = Min(lessons[i].relevance_score + Unit \div 10, 2 * Unit)
              /\ pre'[i].relevance_score > lessons[i].relevance_score
              /\ pre'[i].relevance_score <= 2 * Unit]_vars
    /\ [](last = "reflect" =>
            \A j \in 1..Len(lessons) :
              \E k \in 1..Len(pre) :
                /\ pre[k].lesson_id = lessons[j].lesson_id
                /\ lessons[j].relevance_score
                     = (pre[k].relevance_score * 99) \div 100)

\* A merge found the score within 0.1 of 2.0 and set it to 2.0, and the
\* curation made it 1.98.
C22_Witness ==
    /\ last = "reflect"
    /\ Len(lessons) = 1
    /\ Len(pre) = 1
    /\ pre[1].relevance_score = 2 * Unit
    /\ lessons[1].relevance_score = (2 * Unit * 99) \div 100

\* --------------------------------------------- claims under SpecCategorize
\* C23: the lesson recorded for a task has the category that retrieval
\* computes from the phase and the description of that task, and so gets
\* the 1.5 of a matching type when lessons are retrieved for the task.
C23_SameCategorizer ==
    \A i \in 1..Len(lessons) :
      /\ lessons[i].task_type
           = categorize_task_from_description(subject.phase,
                                              subject.description)
      /\ calculate_relevance(lessons[i], subject.phase, subject.description)
           >= (3 * lessons[i].relevance_score) \div 2

\* The first category, in the order testing, implementation, planning,
\* refactoring, bugfix, one of whose keywords occurs in the phase or in the
\* text; general when there is none.
FirstCategory(ph, text) ==
    LET Occurs(kw) == Has(kw, <<ph>>) \/ Has(kw, text) IN
      IF Occurs("test") THEN "testing"
      ELSE IF Occurs("implement") \/ Occurs("code") THEN "implementation"
      ELSE IF Occurs("plan") \/ Occurs("design") THEN "planning"
      ELSE IF Occurs("refactor") THEN "refactoring"
      ELSE IF Occurs("bug") \/ Occurs("fix") THEN "bugfix"
      ELSE "general"

\* C24: the category retrieval computes for a phase and a description, and
\* the category a lesson is recorded with for a phase and a title, is the
\* first category one of whose keywords occurs in the phase or in the text,
\* and general only when no keyword occurs in either.
C24_FirstKeywordWins ==
    /\ last = "retrieve" =>
         categorize_task_from_description(query[1], query[2])
           = FirstCategory(query[1], query[2])
    /\ \A i \in 1..Len(lessons) :
         lessons[i].task_type = FirstCategory(subject.phase, subject.title)

\* ------------------------------------------- further claims under Spec
\* C25: a step that changes the task source changes the status of one task
\* only, the task that was polled and is being executed, and sets it to
\* in_progress, complete or open; the source keeps its tasks.
C25_OnlyStatusOfCurrentTask ==
    [][bd' # bd =>
         /\ task # None
         /\ task' = task
         /\ current_task' = task
         /\ DOMAIN bd' = DOMAIN bd
         /\ \A id \in TaskIds :
              bd'[id] # bd[id] =>
                /\ id = task
                /\ bd'[id] \in {"in_progress", "complete", "open"}]_vars

\* A task was executed and marked complete while another task that the
\* agent serves stayed open.
C25_Witness ==
    /\ ExecEnded
    /\ bd[task] = "complete"
    /\ \E id \in TaskIds \ {task} :
         /\ bd[id] = "open"
         /\ Lower(TaskList[TaskOf(id)].phase)
              = Lower(TaskList[TaskOf(task)].phase)

\* C26: when iterate() polls, no task is in execution: current_task is
\* None, active_leases is empty, and a release was requested for every lease
\* the previous iterate() call acquired; cleanup() finds the same.
C26_OneTaskInFlight ==
    /\ mpc \in {"poll", "cleanup"} =>
         /\ current_task = None
         /\ active_leases = <<>>
         /\ relReq = acquired
    /\ current_task \in {None, task}

\* The second poll, after an iterate() call that acquired two leases.
C26_Witness ==
    /\ mpc = "poll"
    /\ iter = 2
    /\ Cardinality(acquired) = 2
    /\ relReq = acquired
    /\ active_leases = <<>>
    /\ current_task = None

\* ------------------------------------------ further claims under SpecHB
\* C27: update_status takes the status it finds as old_status and calls
\* _send_heartbeat exactly when the status it is called with differs from
\* it; a call with the arguments of the call before finds status,
\* current_task and error equal to its arguments, leaves them so at every
\* statement, and sends nothing.
C27_SendsOnChangeOnly ==
    /\ [][(upc = "none" /\ upc' # "none") =>
            (old_status' = hb_status /\ hb_status' = u_args'[1])]_vars
    /\ [][(upc = "w_error" /\ upc' # "w_error") =>
            ((upc' = "send") <=> (old_status # u_args[1]))]_vars
    /\ [](upc = "send" => old_status # hb_status)
    /\ []((calls >= 2 /\ u_prev = u_args) =>
            /\ <<hb_status, hb_task, hb_error>> = u_args
            /\ upc # "send")

\* The second of two calls update_status("working", id) has returned.
C27_Witness ==
    /\ calls = 2
    /\ u_prev = u_args
    /\ u_args[1] = "working"
    /\ upc = "none"
    /\ <<hb_status, hb_task, hb_error>> = u_args

\* -------------------------------------------- more claims under Spec
\* The step is an update_status call whose heartbeat request failed.
HeartbeatFails == hb_status' # hb_status /\ backoff_time' # 1

\* C28: an update_status call whose heartbeat fails raises nothing: the
\* record and the payload hold the new status, no exception is noted, and
\* the caller goes on where it goes on after a heartbeat that succeeded;
\* every execution ends with one terminal status update, one lesson record
\* and a release request for every lease it acquired.
C28_HeartbeatFailureIsSwallowed ==
    /\ [][HeartbeatFails =>
            /\ payload'.status = hb_status'
            /\ exc' = exc
            /\ failed' = failed
            /\ bd' = bd
            /\ mpc' = CASE mpc = "t_working" -> "t_identify"
                        [] mpc = "poll" -> "sleep"
                        [] mpc = "t_release" -> "sleep"
                        [] OTHER -> "none"]_vars
    /\ [](ExecEnded =>
            /\ Len(StatusUpdates(ev)) = 2
            /\ Len(Reflects(ev)) = 1
            /\ relReq = acquired
            /\ hb_status = "idle")

\* An execution whose working and idle heartbeats both failed ended with the
\* task marked complete and its two leases released.
C28_Witness ==
    /\ ExecEnded
    /\ iter = 1
    /\ backoff_time = 4
    /\ exc = None
    /\ bd[task] = "complete"
    /\ Cardinality(acquired) = 2
    /\ relReq = acquired

\* ------------------------------------------ more claims under SpecHB
\* The step stores the back-off a failed heartbeat computed.
FailureStored ==
    \/ upc = "backoff" /\ upc' = "none"
    \/ tpc = "backoff" /\ tpc' = "loop"

\* The step is a heartbeat request answered with 200.
Succeeded ==
    \/ upc = "send" /\ upc' = "none"
    \/ tpc = "post" /\ tpc' = "loop"

\* C29: backoff_time is between 1 and 300; a failed heartbeat of either
\* thread sets it to the smaller of twice the value it had and 300, which is
\* more than it had when that was below 300; a heartbeat that succeeded
\* sets it to 1.
C29_BackoffDoublesAndResets ==
    /\ [](backoff_time >= 1 /\ backoff_time <= max_backoff)
    /\ [][FailureStored =>
            /\ backoff_time' = Min(2 * backoff_time, max_backoff)
            /\ backoff_time < max_backoff => backoff_time' > backoff_time]_vars
    /\ [][Succeeded => backoff_time' = 1]_vars

\* ------------------------------------------------- claims under SpecRetry
\* The call of _retry_with_backoff is over.
RetryDone == retry.pc = "done"

\* What a finished call with max_retries >= 1 has done: between one and
\* max_retries calls of func, all but the last of them failed; a last call
\* that succeeded is returned, a last call that failed was call number
\* max_retries and its exception is raised.
RetryOutcome ==
    LET n == Len(retry.calls)
    IN  /\ n >= 1
        /\ n <= retry.max_retries
        /\ \A i \in 1..(n - 1) : ~retry.calls[i].ok
        /\ retry.calls[n].ok => retry.out = <<"return", retry.calls[n].v>>
        /\ ~retry.calls[n].ok =>
             /\ n = retry.max_retries
             /\ retry.out = <<"raise", retry.calls[n].v>>

\* C30: for max_retries >= 1, _retry_with_backoff calls func until its first
\* success and returns that result, calling func at most max_retries times;
\* when all max_retries calls fail it raises the exception of the last call;
\* after it is over it calls func no more; and it always comes to an end.
C30_RetryUntilSuccessOrLastFailure ==
    /\ [](retry.max_retries >= 1 =>
            /\ Len(retry.calls) <= retry.max_retries
            /\ \A i \in 1..Len(retry.calls) :
                 retry.calls[i].ok => i = Len(retry.calls) /\ RetryDone
            /\ RetryDone => RetryOutcome)
    /\ [][RetryDone => retry' = retry]_vars
    /\ (retry.max_retries >= 1) ~> RetryDone

\* Three calls of three have failed and the exception of the third, which
\* is not that of the first, is raised.
C30_Witness ==
    /\ RetryDone
    /\ retry.max_retries = 3
    /\ Len(retry.calls) = 3
    /\ retry.calls[1].v = "e1"
    /\ retry.out = <<"raise", "e2">>
    /\ retry.waits = <<1, 2>>

\* -------------------------------------------------- claims under SpecPlan
\* What the entries of a list that address path p make of content c, one
\* after the other: a write replaces it, a delete removes the file, and an
\* entry of another type leaves it.
RECURSIVE FoldOnPath(_, _, _)
FoldOnPath(c, as, p) ==
    IF as = <<>> THEN c
    ELSE LET a == Head(as)
             c1 == IF a.file # p THEN c
                   ELSE IF a.type = "write" THEN a.content
                   ELSE IF a.type = "delete" THEN Absent
                   ELSE c
         IN  FoldOnPath(c1, Tail(as), p)

\* The file system before any plan was applied.
FsBefore == [p \in Paths |-> IF p = "b.py" THEN Absent ELSE "old"]

\* C31: when _execute_action_plan is over, every leased path holds what the
\* entries of the plan that address it, taken in list order, make of what it
\* held before: a write replaces the content and creates the file, a delete
\* removes it when it exists, a read or an entry of another type leaves it.
C31_FinalStateIsOrderedFold ==
    mpc = "ep_done" =>
      \A p \in leased_files(leases) :
        fs[p] = FoldOnPath(FsBefore[p], plan, p)

\* --------------------------------------------------- claims under SpecAdd
\* The places of the lessons of ls that are similar to the lesson of task t.
SimilarTo(ls, t) ==
    {i \in 1..Len(ls) :
       lessons_similar(ls[i], extract_lesson_from_task(t, "success", 0))}

\* C32: when the lesson of the task is similar to stored lessons, the list
\* _add_lesson leaves has the same length, differs from the list before in
\* the first similar lesson only, and that lesson keeps its lesson_id,
\* context, action, outcome, task_type and created_at.
C32_MergeTouchesFirstSimilarOnly ==
    [][(nops' = nops + 1 /\ SimilarTo(lessons, subject') # {}) =>
         LET m == CHOOSE i \in SimilarTo(lessons, subject') :
                    \A j \in SimilarTo(lessons, subject') : i <= j
         IN  /\ Len(pre') = Len(lessons)
             /\ \A j \in 1..Len(lessons) : j # m => pre'[j] = lessons[j]
             /\ \A f \in LessonFields \ {"relevance_score", "learned"} :
                  pre'[m][f] = lessons[m][f]
             /\ pre'[m] # lessons[m]]_vars

\* The lesson of the task was similar to both stored lessons and was merged
\* into the first, which is not the older one: its score went up by 0.1
\* and its text grew, the second is as it was.
C32_Witness ==
    /\ nops > 0
    /\ Len(pre) = 2
    /\ SimilarTo(pre, subject) = {1, 2}
    /\ pre[1].lesson_id[1] = "t2"
    /\ pre[1].relevance_score = (Unit * 99) \div 100 + Unit \div 10
    /\ pre[2].relevance_score < Unit
    /\ IsSubstring(<<"|">>, pre[1].learned)
    /\ ~IsSubstring(<<"|">>, pre[2].learned)

\* Shared words and distinct words of the lower-cased contexts of two
\* lessons.
Shared(l1, l2) == Cardinality(Words(l1.context) \cap Words(l2.context))

Distinct(l1, l2) == Cardinality(Words(l1.context) \cup Words(l2.context))

\* Same task_type, a word in each context, and shared / distinct above 0.6.
SimilarAsStated(l1, l2) ==
    /\ l1.task_type = l2.task_type
    /\ Words(l1.context) # {}
    /\ Words(l2.context) # {}
    /\ 10 * Shared(l1, l2) > 6 * Distinct(l1, l2)

C36_NoTwoSimilarStored ==
    /\ [](\A i, j \in 1..Len(lessons) :
            i # j => ~SimilarAsStated(lessons[i], lessons[j]))
    /\ [][\A i \in 1..Len(lessons) : \A j \in 1..Len(lessons') :
            lessons'[j].lesson_id = lessons[i].lesson_id =>
              /\ lessons'[j].context = lessons[i].context
              /\ lessons'[j].task_type = lessons[i].task_type]_vars

\* Two lessons are stored, one of which has taken a second lesson in, and
\* their contexts share 6 of 10 words.
C36_Witness ==
    /\ Len(lessons) = 2
    /\ lessons[1].task_type = lessons[2].task_type
    /\ Shared(lessons[1], lessons[2]) = 6
    /\ Distinct(lessons[1], lessons[2]) = 10
    /\ \E i \in 1..2 : IsSubstring(<<"|">>, lessons[i].learned)

\* ------------------------------------------- further claims under SpecACE
\* C37: when reflect_on_task appends its lesson to a store of max_lessons
\* lessons, the curation pass drops exactly one of the max_lessons + 1; the
\* new lesson, appended last with score 1.0, is kept only if a stored lesson
\* had a score below 1.0, and is the one dropped when every stored lesson
\* had 1.0 or more, so that the stored ids are the same as before.
C37_FullStoreDropsOne ==
    [][(nops' = nops + 1 /\ last' = "reflect"
          /\ Len(lessons) = max_lessons /\ Len(pre') = max_lessons + 1) =>
         LET new == pre'[Len(pre')] IN
           /\ new.relevance_score = Unit
           /\ Len(lessons') = max_lessons
           /\ Ids(lessons') \subseteq Ids(pre')
           /\ Cardinality(Ids(pre') \ Ids(lessons')) = 1
           /\ new.lesson_id \in Ids(lessons') =>
                \E i \in 1..Len(lessons) : lessons[i].relevance_score < Unit
           /\ (\A i \in 1..Len(lessons) : lessons[i].relevance_score >= Unit)
                => Ids(lessons') = Ids(lessons)]_vars

\* The lesson of the task was appended to max_lessons lessons of which none
\* had a score below 1.0 and one had 1.0, and it is not in the store.
C37_Witness ==
    /\ last = "reflect"
    /\ Len(pre) = max_lessons + 1
    /\ pre[Len(pre)].created_at = nops
    /\ \A i \in 1..max_lessons : pre[i].relevance_score >= Unit
    /\ \E i \in 1..max_lessons : pre[i].relevance_score = Unit
    /\ pre[Len(pre)].lesson_id \notin Ids(lessons)
    /\ Len(lessons) = max_lessons

\* -------------------------------------------------- claims under SpecStop
\* C34: when stop() has returned, running is false; stop() on a running
\* manager sends a heartbeat with status offline before it returns, and no
\* heartbeat is sent after that one; stop() on a manager that is not
\* running sends nothing.
C34_OfflineIsFinal ==
    /\ [](mpc = "stopped" => ~hb_running)
    /\ [][(mpc = "stop_send" /\ mpc' = "stopped") =>
            payload'.status = "offline"]_vars
    /\ [][(mpc = "stopped" /\ payload.status = "offline") =>
            payload' = payload]_vars
    /\ [][(mpc = "stop" /\ ~hb_running) => payload' = payload]_vars

InExecution(a) == ag[a].pc \in {"lease", "apply", "except", "release"}

\* Agent a was granted a lease on p in its current execution and has not
\* issued the release request for it.
InWindow(a, p) ==
    /\ InExecution(a)
    /\ p \in leased_files(ag[a].leases)
    /\ p \notin ag[a].asked

\* A write or delete of a path by an agent happens while the broker holds
\* that agent's lease on the path, after the grant and before the agent's
\* release request.
WritesInsideWindow ==
    \A a \in Agents :
      ag[a].mut # None =>
        /\ broker[ag[a].mut] = a
        /\ InWindow(a, ag[a].mut)

\* C35 as stated: writes and deletes fall between grant and release request,
\* and two agents whose executions overlap have not both written or deleted
\* the same path in them.
C35_NoSharedPathInOverlappingExecutions ==
    /\ WritesInsideWindow
    /\ \A a, b \in Agents :
         (a # b /\ InExecution(a) /\ InExecution(b)) =>
           ag[a].touched \cap ag[b].touched = {}

\* C35, amended: under a broker that grants a path only while it has no
\* unreleased lease and expires none, writes and deletes fall between grant
\* and release request, and for one path the periods from grant to release
\* request of two agents never overlap; so while one agent writes or deletes
\* a path, no other agent is between its grant and its release request for
\* that path, though their executions may overlap.
C35_LeaseWindowsDisjoint ==
    /\ WritesInsideWindow
    /\ \A a, b \in Agents, p \in Paths :
         (InWindow(a, p) /\ InWindow(b, p)) => a = b

\* Both agents are inside _execute_task: a2 has just written a.py under its
\* lease, and a1, which wrote a.py earlier in its execution and has asked
\* for its release, is still releasing.
C35_Witness ==
    /\ ag["a2"].mut = "a.py"
    /\ InWindow("a2", "a.py")
    /\ ag["a1"].pc = "release"
    /\ "a.py" \in ag["a1"].touched
    /\ "a.py" \in ag["a1"].asked

\* ------------------------------------------------- claims under SpecAgain
\* C39: when an execution failed and its update back to open succeeded, and
\* the next poll is answered with the same ordered list as the poll before,
\* iterate() selects the same task again; and as long as every execution
\* fails and is reverted and every poll is answered with the same list, the
\* agent executes no other task than that one, whatever matching tasks
\* follow it in the list.
C39_FailedTaskSelectedAgain ==
    /\ ( /\ ag[Solo].pc = "polled"
         /\ hist.prev # None
         /\ hist.listed = hist.before ) => ag[Solo].task = hist.prev
    /\ hist.steady => Cardinality(hist.executed) <= 1

\* t1 failed and was set back to open, the next poll was answered with the
\* same list and selected t1 again, while t2, a later task of the agent's
\* phase, is open.
C39_Witness ==
    /\ ag[Solo].pc = "polled"
    /\ ag[Solo].runs >= 2
    /\ hist.prev = "t1"
    /\ hist.listed = hist.before
    /\ hist.steady
    /\ ag[Solo].task = "t1"
    /\ bd["t2"] = "open"

====
